---- MODULE Spec2Model ----
(***************************************************************************)
(* State-machine model of the EEG tutor repository.                        *)
(*                                                                         *)
(* The repository holds two programs.  "backend" is the FastAPI service    *)
(* (backend/main.py) with the EEGService ring buffer and the               *)
(* CognitiveLoadPredictor.  "examples" is the Flask application            *)
(* (examples/adaptive_learning_app.py) with the AdaptiveLearningSystem,    *)
(* its ConfusionModel and its Flashcard scheduler.                         *)
(*                                                                         *)
(* Numbers.  Python floats are modelled as exact rationals <<n, d>> in     *)
(* lowest terms (d > 0), so 2.5 - 0.2 - 0.2 is the rational 21/10; IEEE    *)
(* rounding of the last bit is not modelled.  Time is a clock `now` in     *)
(* ticks, TicksPerDay ticks to the day; a card id, which the code takes    *)
(* from the millisecond clock, is the tick at which the card was made.     *)
(***************************************************************************)
EXTENDS Integers, Sequences, FiniteSets, TLC

VARIABLES
    program,          \* which of the two programs runs: "backend" | "examples"
    now,              \* the wall clock (time.time(), datetime.now()), in ticks
    \* ---- backend: EEGService (eeg_service.py)
    is_connected, last_data_time, data_count, recent_data,
    deque_state,      \* CPython's mutation counter of the recent_data deque
    reader,           \* the read query the event-loop thread is executing
    \* ---- examples: AdaptiveLearningSystem (adaptive_learning_backend.py)
    is_collecting, eeg_buffer, current_stage, current_session,
    calibration_data, flashcards, confusion_model,
    threads,          \* Flask request threads in flight
    \* ---- backend: CognitiveLoadPredictor (ml_service.py) and its callers
    predictor, model_files, handlers,
    \* ---- observation
    accepted,         \* the samples appended so far, in arrival order
    issued,           \* how many of them had arrived when the last trial was issued
    ret               \* the last completed call and what it returned

eegVars  == <<is_connected, last_data_time, data_count, recent_data, deque_state>>
alsVars  == <<is_collecting, eeg_buffer, current_stage, current_session,
              calibration_data, flashcards, confusion_model>>
mlVars   == <<predictor, model_files, handlers>>
obsVars  == <<accepted, issued>>
vars == <<program, now, eegVars, reader, alsVars, threads, mlVars, obsVars, ret>>

----------------------------------------------------------------------------
(* Bounds of the model                                                     *)

MaxNow == 3              \* the clock stops after this many ticks
MaxCards == 3            \* cards added in the scheduler specification
MaxReviews == 2          \* reviews processed in the scheduler specification
MaxUpdatesCard == 3      \* updates of the one card of SpecCard
MaxUpdatesRange == 10    \* updates of the one card of SpecRange
MaxUpdatesHist == 11     \* updates of the one card of SpecHistory
MaxNowHist == 1          \* clock bound of SpecHistory
MaxExtra == 3            \* datagrams delivered beyond a buffer's capacity
MaxReadSamples == 3      \* samples ingested while queries run, in SpecRead
MaxNowConn == 6          \* clock bound of SpecConn, in seconds
MaxConnDatagrams == 2    \* EEG datagrams of four or more arguments in SpecConn
MaxRateSamples == 200    \* samples ingested in SpecRate
MaxCalls == 3            \* calls on the predictor in SpecStore
MaxSubmits == 2          \* trials kept in calibration_data in SpecExtract
MaxScoreReviews == 2     \* reviews of the card in SpecScore
MaxLabelRequests == 2    \* /ml requests in SpecLabel
MaxFlowNow == 1          \* the clock in SpecFlow
MaxFlowReviews == 1      \* reviews in SpecFlow
MaxFlowSamples == 1      \* samples ingested in SpecFlow
MaxFlowFinishes == 1     \* finish_calibration calls that train in SpecFlow
MaxTrialSamples == 512   \* samples ingested in SpecTrial
MaxTrials == 2           \* calibration trials of a session in SpecTrial
MaxTrialFinishes == 1    \* finish_calibration calls that train in SpecTrial
MaxLabelSamples == 2     \* EEG samples over the predict requests in SpecLabel

----------------------------------------------------------------------------
(* Rational arithmetic for Python floats                                   *)

RECURSIVE GCD(_, _)
GCD(a, b) == IF b = 0 THEN a ELSE GCD(b, a % b)

Abs(x) == IF x < 0 THEN -x ELSE x

RNorm(n, d) == LET g == GCD(Abs(n), d) IN <<n \div g, d \div g>>
R(n) == <<n, 1>>
RAdd(a, b) == RNorm(a[1] * b[2] + b[1] * a[2], a[2] * b[2])
RSub(a, b) == RNorm(a[1] * b[2] - b[1] * a[2], a[2] * b[2])
RMul(a, b) == RNorm(a[1] * b[1], a[2] * b[2])
RLe(a, b) == a[1] * b[2] <= b[1] * a[2]
RLt(a, b) == a[1] * b[2] < b[1] * a[2]
RMax(a, b) == IF RLe(b, a) THEN a ELSE b
RMin(a, b) == IF RLe(a, b) THEN a ELSE b

RECURSIVE SumSeq(_)
SumSeq(s) == IF s = <<>> THEN 0 ELSE Head(s) + SumSeq(Tail(s))

\* np.mean of a non-empty list of numbers
Mean(s) == RNorm(SumSeq(s), Len(s))

\* s[-k:] of a Python list
LastK(s, k) == IF Len(s) <= k THEN s ELSE SubSeq(s, Len(s) - k + 1, Len(s))

----------------------------------------------------------------------------
(* Time                                                                    *)

TicksPerDay == 2
HoursPerDay == 24

\* timedelta(days = x) in ticks
Days(x) == RMul(x, R(TicksPerDay))

\* (a - b).total_seconds() / 3600, for a and b in ticks
HoursBetween(a, b) == RMul(RSub(a, b), RNorm(HoursPerDay, TicksPerDay))

----------------------------------------------------------------------------
(* Flashcard (adaptive_learning_backend.py)                                *)

\* Flashcard.__init__: the id is the clock in milliseconds
NewFlashcard(t) ==
    [ id |-> t,
      ease_factor |-> <<5, 2>>,
      interval |-> R(1),
      repetitions |-> 0,
      next_review |-> R(t),
      confusion_history |-> <<>>,
      avg_confusion |-> R(5),
      last_confusion |-> <<>> ]

HistoryWindow == 10

RecentScoresMutant(history) == [i \in 1..Len(history) |-> history[i].score]
\* the scores np.mean is taken over
RecentScores(history) ==
    [i \in 1..Len(LastK(history, HistoryWindow)) |->
        LastK(history, HistoryWindow)[i].score]

HighMutant(score) == score > 7
High(score) == score >= 7
Medium(score) == score >= 4

IntervalAfterMutant(interval, score) ==
    IF High(score) THEN RMax(<<1, 10>>, RMul(interval, <<1, 2>>))
    ELSE IF Medium(score) THEN RMul(interval, R(1))
    ELSE RMul(interval, <<3, 2>>)
IntervalAfter(interval, score) ==
    IF High(score) THEN RMax(<<1, 10>>, RMul(interval, <<1, 2>>))
    ELSE IF Medium(score) THEN RMul(interval, R(1))
    ELSE RMin(R(30), RMul(interval, <<3, 2>>))

EaseAfter(ease, score) ==
    IF High(score) THEN RMax(<<13, 10>>, RSub(ease, <<1, 5>>))
    ELSE IF Medium(score) THEN ease
    ELSE RMin(R(3), RAdd(ease, <<1, 10>>))

HistoryAfterMutant(history, entry) == LastK(Append(history, entry), HistoryWindow)
HistoryAfter(history, entry) == Append(history, entry)

\* Flashcard.update_from_confusion, both clock reads returning t
UpdateFromConfusion(card, score, t) ==
    LET history == HistoryAfter(card.confusion_history,
                                [score |-> score, timestamp |-> t])
        interval == IntervalAfter(card.interval, score)
    IN  [ id |-> card.id,
          ease_factor |-> EaseAfter(card.ease_factor, score),
          interval |-> interval,
          repetitions |-> card.repetitions + 1,
          next_review |-> RAdd(R(t), Days(interval)),
          confusion_history |-> history,
          avg_confusion |-> Mean(RecentScores(history)),
          last_confusion |-> <<score>> ]

----------------------------------------------------------------------------
(* Option values: None is <<>>, a value v is <<v>>                         *)

None == <<>>
Some(v) == <<v>>

----------------------------------------------------------------------------
(* EEGProcessor and ConfusionModel, as far as the scheduler reads them     *)

MinSamples == 256

\* the channels of a sample, the frequency bands of EEGProcessor and the two
\* further features of a channel
Channels == {"tp9", "af7", "af8", "tp10"}
FreqBands == {"delta", "theta", "alpha", "beta", "gamma"}
ChannelFeatures == FreqBands \cup {"total_power", "peak_freq"}

\* the values of one channel: [sample[channel] for sample in eeg_data if
\* channel in sample]
ChannelData(samples, channel) ==
    SelectSeq(samples, LAMBDA sample : channel \in DOMAIN sample)

\* the keys extract_features fills: those of the channels with 256 values
FeatureKeys(samples) ==
    { <<channel, f>> : channel \in {c \in Channels :
                           Len(ChannelData(samples, c)) >= MinSamples},
                      f \in ChannelFeatures }

ExtractFeaturesMutant(samples) ==
    IF Len(samples) < MinSamples
    THEN Some([first |-> 0, n |-> Len(samples), keys |-> FeatureKeys(samples)])
    ELSE Some([first |-> samples[1], n |-> Len(samples), keys |-> FeatureKeys(samples)])
\* EEGProcessor.extract_features: None below 256 samples, else the feature
\* vector, which the model keeps as the window it was computed from and the
\* keys it has
ExtractFeatures(samples) ==
    IF Len(samples) < MinSamples THEN None
    ELSE Some([first |-> samples[1], n |-> Len(samples), keys |-> FeatureKeys(samples)])

\* the raw outputs a fitted linear model may give for some feature vector
RawOutputs == {-2, 1, 5, 8, 12}

\* ConfusionModel.predict's clamp: max(1, min(10, prediction))
Clamp(raw) == IF raw > 10 THEN 10 ELSE IF raw < 1 THEN 1 ELSE raw

----------------------------------------------------------------------------
(* AdaptiveLearningSystem: flashcards                                      *)

CardIndex(cards, card_id) ==
    IF \E i \in 1..Len(cards) : cards[i].id = card_id
    THEN CHOOSE i \in 1..Len(cards) : cards[i].id = card_id
    ELSE 0

\* self.flashcards[card.id] = card: a dict keeps the position of an existing key
DictPut(cards, card) ==
    IF CardIndex(cards, card.id) = 0 THEN Append(cards, card)
    ELSE [cards EXCEPT ![CardIndex(cards, card.id)] = card]

\* AdaptiveLearningSystem.add_flashcard
AddFlashcard ==
    /\ program = "examples"
    /\ flashcards' = DictPut(flashcards, NewFlashcard(now))
    /\ ret' = [op |-> "add_flashcard", val |-> Some(now), raised |-> FALSE]
    /\ UNCHANGED <<program, now, eegVars, reader, is_collecting, eeg_buffer,
                   current_stage, current_session, calibration_data,
                   confusion_model, threads, mlVars, obsVars>>

\* card.next_review <= now
IsDue(card, t) == RLe(card.next_review, R(t))

DueCards(cards, t) == SelectSeq(cards, LAMBDA c : IsDue(c, t))

RemoveAt(s, i) == SubSeq(s, 1, i - 1) \o SubSeq(s, i + 1, Len(s))

\* the first position holding a largest avg_confusion
FirstMaxAvg(s) ==
    CHOOSE i \in 1..Len(s) :
        /\ \A j \in 1..Len(s) : RLe(s[j].avg_confusion, s[i].avg_confusion)
        /\ \A j \in 1..(i - 1) : RLt(s[j].avg_confusion, s[i].avg_confusion)

\* sorted(cards, key = avg_confusion, reverse = True): a stable sort
RECURSIVE SortedByConfusion(_)
SortedByConfusion(s) ==
    IF s = <<>> THEN <<>>
    ELSE <<s[FirstMaxAvg(s)]>> \o SortedByConfusion(RemoveAt(s, FirstMaxAvg(s)))

FallbackSize == 5

\* due_cards of get_next_flashcard
CandidatesMutant(cards, t) ==
    SubSeq(SortedByConfusion(cards), 1,
           IF Len(cards) < FallbackSize THEN Len(cards) ELSE FallbackSize)
Candidates(cards, t) ==
    IF DueCards(cards, t) # <<>> THEN DueCards(cards, t)
    ELSE SubSeq(SortedByConfusion(cards), 1,
                IF Len(cards) < FallbackSize THEN Len(cards) ELSE FallbackSize)

\* priority_score
Priority(card, t) ==
    RAdd(RMul(card.avg_confusion, R(2)),
         RMax(R(0), HoursBetween(R(t), card.next_review)))

\* max(due_cards, key = priority_score): the first of the largest
ArgMaxMutant(cands, t) ==
    CHOOSE i \in 1..Len(cands) :
        /\ \A j \in 1..Len(cands) : RLe(Priority(cands[j], t), Priority(cands[i], t))
        /\ \A j \in (i + 1)..Len(cands) : RLt(Priority(cands[j], t), Priority(cands[i], t))
ArgMax(cands, t) ==
    CHOOSE i \in 1..Len(cands) :
        /\ \A j \in 1..Len(cands) : RLe(Priority(cands[j], t), Priority(cands[i], t))
        /\ \A j \in 1..(i - 1) : RLt(Priority(cands[j], t), Priority(cands[i], t))

\* AdaptiveLearningSystem.get_next_flashcard
GetNextFlashcard ==
    /\ program = "examples"
    /\ IF flashcards = <<>>
       THEN /\ ret' = [op |-> "get_next_flashcard", val |-> None, at |-> now, raised |-> FALSE]
            /\ UNCHANGED eeg_buffer
       ELSE /\ ret' = [op |-> "get_next_flashcard",
                       val |-> Some(Candidates(flashcards, now)
                                        [ArgMax(Candidates(flashcards, now), now)].id),
                       at |-> now, raised |-> FALSE]
            /\ eeg_buffer' = <<>>
    /\ UNCHANGED <<program, now, eegVars, reader, is_collecting, current_stage,
                   current_session, calibration_data, flashcards,
                   confusion_model, threads, mlVars, obsVars>>

\* confusion_score of process_flashcard_review: `x or 5` takes 5 for None and 0
ScoreOf(predicted, user_rating) ==
    IF predicted # None THEN predicted[1]
    ELSE IF user_rating # None /\ user_rating[1] # 0 THEN user_rating[1]
    ELSE 5

\* AdaptiveLearningSystem.process_flashcard_review; a calibration session has
\* no 'cards_reviewed' key, so recording the review in it raises KeyError
ProcessFlashcardReview(card_id, user_rating, raw) ==
    /\ program = "examples"
    /\ LET i == CardIndex(flashcards, card_id)
           features == ExtractFeatures(eeg_buffer)
           predicted == IF features # None /\ confusion_model.is_trained
                        THEN Some(Clamp(raw)) ELSE None
           score == ScoreOf(predicted, user_rating)
       IN  IF i = 0
           THEN /\ ret' = [op |-> "process_flashcard_review", val |-> None, raised |-> FALSE]
                /\ UNCHANGED <<flashcards, current_session>>
           ELSE /\ flashcards' =
                      [flashcards EXCEPT ![i] = UpdateFromConfusion(@, score, now)]
                /\ IF current_session = None
                   THEN /\ UNCHANGED current_session
                        /\ ret' = [op |-> "process_flashcard_review",
                                   val |-> Some([card_id |-> card_id, final_confusion |-> score,
                                                 predicted_confusion |-> predicted]),
                                   raised |-> FALSE]
                   ELSE IF current_session[1].stage = "learning"
                   THEN /\ current_session' =
                              Some([current_session[1] EXCEPT !.cards_reviewed =
                                       Append(@, [card_id |-> card_id, final_confusion |-> score])])
                        /\ ret' = [op |-> "process_flashcard_review",
                                   val |-> Some([card_id |-> card_id, final_confusion |-> score,
                                                 predicted_confusion |-> predicted]),
                                   raised |-> FALSE]
                   ELSE /\ UNCHANGED current_session
                        /\ ret' = [op |-> "process_flashcard_review", val |-> None, raised |-> TRUE]
    /\ UNCHANGED <<program, now, eegVars, reader, is_collecting, eeg_buffer,
                   current_stage, calibration_data, confusion_model, threads,
                   mlVars, obsVars>>

\* the clock advances, up to the bound a specification gives it
Tick(max) ==
    /\ now < max
    /\ now' = now + 1
    /\ UNCHANGED <<program, eegVars, reader, alsVars, threads, mlVars, obsVars, ret>>

----------------------------------------------------------------------------
(* Signal ingestion.  A datagram is "ok" (four numbers or more), "short"   *)
(* (fewer than four arguments) or "nonnumeric" (four arguments, one of     *)
(* which float() rejects).  The k-th datagram that gets stored carries the *)
(* value k on every channel, so a stored sample tells which arrival it is. *)

DatagramKinds == {"ok", "short", "nonnumeric"}

RecentDataMaxlen == 100
EegBufferMaxlen == 2560

Sample(t, k) == [timestamp |-> t, tp9 |-> k, af7 |-> k, af8 |-> k, tp10 |-> k]

\* deque(maxlen = n).append: a full deque drops its oldest entry
DequeAppendMutant(d, x, maxlen) ==
    IF Len(d) >= maxlen THEN d ELSE Append(d, x)
DequeAppend(d, x, maxlen) ==
    IF Len(d) >= maxlen THEN Append(Tail(d), x) ELSE Append(d, x)

\* EEGService.eeg_handler: connection state is updated before the values are
\* converted, so a non-numeric datagram raises after counting itself
EegHandler(kind) ==
    /\ program = "backend"
    /\ IF kind = "short"
       THEN UNCHANGED <<eegVars, accepted>>
       ELSE /\ is_connected' = TRUE
            /\ last_data_time' = Some(now)
            /\ data_count' = data_count + 1
            /\ IF kind = "nonnumeric"
               THEN UNCHANGED <<recent_data, deque_state, accepted>>
               ELSE /\ recent_data' = DequeAppend(recent_data, Sample(now, Len(accepted) + 1),
                                                  RecentDataMaxlen)
                    /\ deque_state' = deque_state + 1
                    /\ accepted' = Append(accepted, Sample(now, Len(accepted) + 1))
    /\ UNCHANGED <<program, now, reader, alsVars, threads, mlVars, issued, ret>>

\* EEGService.acc_handler, gyro_handler, ppg_handler, battery_handler,
\* drlref_handler and generic_handler: any other OSC message
OtherHandler ==
    /\ program = "backend"
    /\ last_data_time' = Some(now)
    /\ UNCHANGED <<program, now, is_connected, data_count, recent_data, deque_state,
                   reader, alsVars, threads, mlVars, obsVars, ret>>

\* AdaptiveLearningSystem.eeg_handler
AlsEegHandler(kind) ==
    /\ program = "examples"
    /\ IF kind = "ok" /\ is_collecting
       THEN /\ eeg_buffer' = DequeAppend(eeg_buffer, Sample(now, Len(accepted) + 1), EegBufferMaxlen)
            /\ accepted' = Append(accepted, Sample(now, Len(accepted) + 1))
       ELSE UNCHANGED <<eeg_buffer, accepted>>
    /\ UNCHANGED <<program, now, eegVars, reader, is_collecting, current_stage,
                   current_session, calibration_data, flashcards, confusion_model,
                   threads, mlVars, issued, ret>>

\* AdaptiveLearningSystem.start_calibration
StartCalibration ==
    /\ program = "examples"
    /\ current_stage' = "calibration"
    /\ calibration_data' = <<>>
    /\ is_collecting' = TRUE
    /\ current_session' = Some([session_id |-> now, stage |-> "calibration", trials |-> <<>>])
    /\ ret' = [op |-> "start_calibration", val |-> Some(now), raised |-> FALSE]
    /\ UNCHANGED <<program, now, eegVars, reader, eeg_buffer, flashcards,
                   confusion_model, threads, mlVars, obsVars>>

----------------------------------------------------------------------------
(* EEGService read queries.  The FastAPI handlers run on the event-loop    *)
(* thread while eeg_handler runs on the OSC server's threads, so a query   *)
(* is interleaved with appends.  A list comprehension over the deque is    *)
(* one step per element; CPython's deque iterator remembers the deque's    *)
(* mutation counter and raises RuntimeError ("deque mutated during         *)
(* iteration") from the next step after an append.  list(deque) is one     *)
(* step.  In this program the clock counts seconds.                        *)

ConnectionTimeout == 5
RateWindow == 1
LatestCount == 10

\* EEGService._get_connection_quality, given the trailing-second count
Quality(connected, sample_rate) ==
    IF ~connected THEN "disconnected"
    ELSE IF sample_rate >= 200 THEN "excellent"
    ELSE IF sample_rate >= 100 THEN "good"
    ELSE IF sample_rate >= 50 THEN "fair"
    ELSE "poor"

\* iter(self.recent_data)
NewIterator == [it_state |-> deque_state, idx |-> 0, seen |-> <<>>, snapshot |-> recent_data]

\* the filter of the comprehension in hand
Keeps(r, sample) ==
    IF r.op = "get_connection_status"
    THEN r.at - sample.timestamp <= RateWindow
    ELSE sample.timestamp >= r.at - RateWindow

\* the entries of the dict get_connection_status returns that are read
\* before _get_connection_quality is called
StatusHead(r) ==
    [ is_connected |-> is_connected',
      last_data_time |-> last_data_time,
      data_count |-> data_count,
      session_duration |-> r.at,
      sample_rate |-> Len(r.it.seen),
      recent_samples_count |-> Len(recent_data) ]

\* what a finished get_connection_status returns
StatusResult(r) ==
    [ is_connected |-> r.head[1].is_connected,
      last_data_time |-> r.head[1].last_data_time,
      data_count |-> r.head[1].data_count,
      session_duration |-> r.head[1].session_duration,
      sample_rate |-> r.head[1].sample_rate,
      recent_samples_count |-> r.head[1].recent_samples_count,
      connection_quality |-> Quality(is_connected', Len(r.it.seen)) ]

\* one next() of the deque iterator of query r, and what follows its
\* StopIteration
IterNext(r) ==
    IF r.it.it_state # deque_state
    THEN /\ reader' = [pc |-> "idle"]
         /\ ret' = [op |-> r.op, val |-> None, raised |-> TRUE]
    ELSE IF r.it.idx < Len(recent_data)
    THEN /\ reader' = [r EXCEPT
                          !.it.idx = @ + 1,
                          !.it.seen = IF Keeps(r, recent_data[r.it.idx + 1])
                                      THEN Append(@, recent_data[r.it.idx + 1])
                                      ELSE @]
         /\ UNCHANGED ret
    ELSE IF r.op = "get_connection_status" /\ r.pass = 1
    THEN /\ reader' = [r EXCEPT !.pc = "between", !.head = Some(StatusHead(r))]
         /\ UNCHANGED ret
    ELSE /\ reader' = [pc |-> "idle"]
         /\ ret' = [op |-> r.op,
                    val |-> Some(IF r.op = "get_connection_status"
                                 THEN StatusResult(r) ELSE r.it.seen),
                    raised |-> FALSE]

\* a query begins: get_connection_status up to the first step of its first
\* comprehension, get_live_data (an empty buffer returns [] at once) up to
\* the first step of its comprehension
StartRead(op) ==
    /\ program = "backend"
    /\ reader.pc = "idle"
    /\ is_connected' =
          IF /\ op = "get_connection_status"
             /\ last_data_time # None
             /\ now - last_data_time[1] > ConnectionTimeout
          THEN FALSE ELSE is_connected
    /\ IF op = "get_live_data" /\ recent_data = <<>>
       THEN /\ ret' = [op |-> op, val |-> Some(<<>>), raised |-> FALSE]
            /\ UNCHANGED reader
       ELSE IterNext([pc |-> "iterating", op |-> op, at |-> now, pass |-> 1,
                      head |-> None, it |-> NewIterator])
    /\ UNCHANGED <<program, now, last_data_time, data_count, recent_data,
                   deque_state, alsVars, threads, mlVars, obsVars>>

\* the comprehension in hand takes its next step
ReadNext ==
    /\ program = "backend"
    /\ reader.pc = "iterating"
    /\ UNCHANGED <<program, now, eegVars, alsVars, threads, mlVars, obsVars>>
    /\ IterNext(reader)

\* get_connection_status goes on to _get_connection_quality, up to the first
\* step of its comprehension
StartSecondPass ==
    /\ program = "backend"
    /\ reader.pc = "between"
    /\ UNCHANGED <<program, now, eegVars, alsVars, threads, mlVars, obsVars>>
    /\ IterNext([reader EXCEPT !.pc = "iterating", !.pass = 2, !.at = now,
                                !.it = NewIterator])

\* EEGService.get_latest_sample: the mean of the last 10 samples of one
\* list(self.recent_data) snapshot (the channels of a sample are equal here)
GetLatestSample ==
    /\ program = "backend"
    /\ reader.pc = "idle"
    /\ IF recent_data = <<>>
       THEN ret' = [op |-> "get_latest_sample", val |-> None, raised |-> FALSE]
       ELSE LET recent == LastK(recent_data, LatestCount)
            IN  ret' = [op |-> "get_latest_sample",
                        val |-> Some([timestamp |-> recent[Len(recent)].timestamp,
                                      tp9 |-> Mean([i \in 1..Len(recent) |-> recent[i].tp9]),
                                      samples_averaged |-> Len(recent)]),
                        raised |-> FALSE]
    /\ UNCHANGED <<program, now, eegVars, reader, alsVars, threads, mlVars, obsVars>>

----------------------------------------------------------------------------
(* CognitiveLoadPredictor (ml_service.py) and the /ml endpoints            *)
(*                                                                         *)
(* A fitted scaler, a fitted model and a metrics dict are each named by    *)
(* the training run that produced them (0: not fitted); a run is named by  *)
(* the position of its request in `handlers`.  A model file is named by    *)
(* the version in its path, and model_files maps that version to the       *)
(* pickled dict.  The endpoints are `async def` functions with no await    *)
(* in them, served by one uvicorn event loop: a request that arrives while *)
(* another is being handled waits until that handler has returned.         *)

MaxRequests == 2         \* /ml requests received in SpecModel

\* _get_latest_version: the highest version among the files, 1 without files
LatestVersion ==
    IF DOMAIN model_files = {} THEN 1
    ELSE CHOOSE v \in DOMAIN model_files : \A w \in DOMAIN model_files : w <= v

NextVersionMutant == LatestVersion
\* _get_next_version
NextVersion == LatestVersion + 1

\* CognitiveLoadPredictor.__init__ with no file on disk, then load_model()
\* finding none
NewPredictor ==
    [is_trained |-> FALSE, model_version |-> 1, model_path |-> 1,
     model |-> 0, scaler |-> 0, last_training_metrics |-> 0]

\* what the training data of a /ml/train request does to train_model: there
\* is none, it trains, or it makes scaler.fit or model.fit raise
TrainingData == {"none", "ok", "bad_scaler", "bad_model"}

\* the /ml requests: train(save_as_new_version) over some training data,
\* load-model(version)
Requests ==
    [op : {"train"}, new_version : BOOLEAN, data : TrainingData, version : {None},
     raw : {<<>>}]
    \cup [op : {"load"}, new_version : {FALSE}, data : {"none"},
          version : {None, Some(1), Some(2), Some(3)}, raw : {<<>>}]

Running(h) == handlers[h].pc \notin {"pending", "done"}

EventLoopIdleMutant == TRUE
\* the event loop takes up a request only when no handler is running
EventLoopIdle == \A h \in 1..Len(handlers) : ~Running(h)

\* a request arrives and waits for the event loop
Arrive(req) ==
    /\ program = "backend"
    /\ handlers' = Append(handlers,
          [op |-> req.op, new_version |-> req.new_version, data |-> req.data,
           version |-> req.version, raw |-> req.raw, pc |-> "pending",
           waited |-> ~EventLoopIdle,
           save_version |-> 0, save_path |-> 0, saved |-> None, loaded |-> None,
           prediction |-> None, labels |-> None, result |-> "none"])
    /\ UNCHANGED <<program, now, eegVars, reader, alsVars, threads, predictor,
                   model_files, obsVars, ret>>

\* where the code of an operation begins
FirstPc(op) ==
    CASE op = "train" -> "prepare"
      [] op = "save" -> "save_version"
      [] op = "load" -> "set_version"
      [] op = "predict" -> "predict"
      [] op = "restart" -> "construct"

\* the event loop calls the endpoint of a waiting request
Start(h) ==
    /\ program = "backend"
    /\ h \in 1..Len(handlers)
    /\ handlers[h].pc = "pending"
    /\ EventLoopIdle
    /\ handlers' = [handlers EXCEPT ![h].pc = FirstPc(handlers[h].op)]
    /\ UNCHANGED <<program, now, eegVars, reader, alsVars, threads, predictor,
                   model_files, obsVars, ret>>

\* the handler returns
Return(h, result) ==
    /\ handlers' = [handlers EXCEPT ![h].pc = "done", ![h].result = result]
    /\ ret' = [op |-> handlers[h].op, val |-> Some(result), raised |-> FALSE]

\* a raw output of the linear model: a float that is finite (a rational),
\* an infinity or NaN
Finite(x) == [kind |-> "finite", v |-> x]
PosInf == [kind |-> "inf", v |-> R(0)]
NegInf == [kind |-> "-inf", v |-> R(0)]
NaN == [kind |-> "nan", v |-> R(0)]

ClipMutant(p, lo, hi) ==
    CASE p.kind = "nan" -> NaN
      [] p.kind = "inf" -> Finite(R(hi))
      [] p.kind = "-inf" -> Finite(R(lo))
      [] OTHER -> Finite(RMin(R(hi), p.v))
\* np.clip(p, lo, hi)
Clip(p, lo, hi) ==
    CASE p.kind = "nan" -> NaN
      [] p.kind = "inf" -> Finite(R(hi))
      [] p.kind = "-inf" -> Finite(R(lo))
      [] OTHER -> Finite(RMax(R(lo), RMin(R(hi), p.v)))

\* int(np.round(x)) for a rational x >= 0: halves go to the even neighbour
RoundHalfEven(x) ==
    LET f == x[1] \div x[2]
        twice == 2 * (x[1] - f * x[2])
    IN  IF twice < x[2] THEN f
        ELSE IF twice > x[2] THEN f + 1
        ELSE IF f % 2 = 0 THEN f ELSE f + 1

RECURSIVE RSum(_)
RSum(s) == IF s = <<>> THEN R(0) ELSE RAdd(Head(s), RSum(Tail(s)))

\* np.mean of a non-empty array of floats
NpMean(raws) ==
    LET kinds == {raws[i].kind : i \in 1..Len(raws)}
    IN  IF "nan" \in kinds \/ {"inf", "-inf"} \subseteq kinds THEN NaN
        ELSE IF "inf" \in kinds THEN PosInf
        ELSE IF "-inf" \in kinds THEN NegInf
        ELSE Finite(RMul(RSum([i \in 1..Len(raws) |-> raws[i].v]), <<1, Len(raws)>>))

\* self.reverse_difficulty_mapping.get(level, 'medium')
DifficultyLabel(level) ==
    IF level = 1 THEN "easy" ELSE IF level = 3 THEN "hard" ELSE "medium"

\* one entry of individual_predictions
IndividualPrediction(pred) ==
    LET pred_clamped == Clip(pred, 1, 3).v
        difficulty_level == RoundHalfEven(pred_clamped)
        distance == RSub(pred_clamped, R(difficulty_level))
    IN  [ raw_prediction |-> pred,
          clamped_prediction |-> pred_clamped,
          difficulty_level |-> difficulty_level,
          difficulty_label |-> DifficultyLabel(difficulty_level),
          confidence |-> RSub(R(1), <<Abs(distance[1]), distance[2]>>) ]

\* the dict a successful predict returns
PredictionResult(raws) ==
    LET results == [i \in 1..Len(raws) |-> IndividualPrediction(raws[i])]
        avg_prediction == NpMean(raws)
        avg_difficulty_level == RoundHalfEven(Clip(avg_prediction, 1, 3).v)
    IN  [ n_samples |-> Len(raws),
          individual_predictions |-> results,
          overall_prediction |->
             [ raw_prediction |-> avg_prediction,
               difficulty_level |-> avg_difficulty_level,
               difficulty_label |-> DifficultyLabel(avg_difficulty_level),
               confidence |-> RMul(RSum([i \in 1..Len(raws) |-> results[i].confidence]),
                                   <<1, Len(raws)>>) ] ]

\* what predict computes from its input on a trained instance: the scaler
\* transforms, the model predicts
Predict(p) == [scaler |-> p.scaler, model |-> p.model]

\* train_model, then save_model, as /ml/train calls them; a save_model call
\* of its own begins at save_version
TrainStep(h) ==
    LET r == handlers[h] IN
    CASE r.pc = "prepare" ->
           \* _prepare_training_data; len(X) == 0
           /\ IF r.data = "none"
              THEN Return(h, "no_data")
              ELSE /\ handlers' = [handlers EXCEPT ![h].pc = "fit_scaler"]
                   /\ UNCHANGED ret
           /\ UNCHANGED <<predictor, model_files>>
      [] r.pc = "fit_scaler" ->
           \* self.scaler.fit(X_train): resets the scaler, then fits or raises
           /\ IF r.data = "bad_scaler"
              THEN /\ predictor' = [predictor EXCEPT !.scaler = 0]
                   /\ Return(h, "raised")
              ELSE /\ predictor' = [predictor EXCEPT !.scaler = h]
                   /\ handlers' = [handlers EXCEPT ![h].pc = "fit_model"]
                   /\ UNCHANGED ret
           /\ UNCHANGED model_files
      [] r.pc = "fit_model" ->
           \* self.model.fit(X_train_scaled, y_train)
           /\ IF r.data = "bad_model"
              THEN /\ Return(h, "raised")
                   /\ UNCHANGED predictor
              ELSE /\ predictor' = [predictor EXCEPT !.model = h]
                   /\ handlers' = [handlers EXCEPT ![h].pc = "store"]
                   /\ UNCHANGED ret
           /\ UNCHANGED model_files
      [] r.pc = "store" ->
           \* self.is_trained = True; self.last_training_metrics = metrics
           /\ predictor' = [predictor EXCEPT !.is_trained = TRUE,
                                             !.last_training_metrics = h]
           /\ handlers' = [handlers EXCEPT ![h].pc = "save_version"]
           /\ UNCHANGED <<model_files, ret>>
      [] r.pc = "save_version" ->
           \* save_model: the version and path to save under
           /\ IF ~predictor.is_trained
              THEN Return(h, "not_saved")
              ELSE /\ handlers' = [handlers EXCEPT ![h].pc = "save_write",
                          ![h].save_version = IF r.new_version THEN NextVersion
                                              ELSE predictor.model_version,
                          ![h].save_path = IF r.new_version THEN NextVersion
                                           ELSE predictor.model_path]
                   /\ UNCHANGED ret
           /\ UNCHANGED <<predictor, model_files>>
      [] r.pc = "save_write" ->
           \* model_data = {...}; pickle.dump(model_data, f)
           /\ model_files' =
                 (r.save_path :> [model |-> predictor.model,
                                  scaler |-> predictor.scaler,
                                  last_training_metrics |-> predictor.last_training_metrics,
                                  is_trained |-> predictor.is_trained,
                                  model_version |-> r.save_version,
                                  saved_by |-> h])
                 @@ model_files
           /\ handlers' = [handlers EXCEPT ![h].pc = "save_update",
                                            ![h].saved = Some(Predict(predictor))]
           /\ UNCHANGED <<predictor, ret>>
      [] r.pc = "save_update" ->
           \* the instance points to the new version
           /\ predictor' = IF r.new_version
                           THEN [predictor EXCEPT !.model_version = r.save_version,
                                                  !.model_path = r.save_path]
                           ELSE predictor
           /\ Return(h, "saved")
           /\ UNCHANGED model_files

LoadStepMutant(h) ==
    LET r == handlers[h] IN
    CASE r.pc = "set_version" ->
           /\ predictor' = IF r.version # None
                           THEN [predictor EXCEPT !.model_version = r.version[1],
                                                  !.model_path = r.version[1]]
                           ELSE predictor
           /\ handlers' = [handlers EXCEPT ![h].pc = "exists"]
           /\ UNCHANGED <<model_files, ret>>
      [] r.pc = "exists" ->
           /\ IF predictor.model_path \notin DOMAIN model_files
              THEN Return(h, "missing")
              ELSE /\ handlers' = [handlers EXCEPT ![h].pc = "assign",
                          ![h].loaded = Some(model_files[predictor.model_path])]
                   /\ UNCHANGED ret
           /\ UNCHANGED <<predictor, model_files>>
      [] r.pc = "assign" ->
           /\ predictor' = [predictor EXCEPT
                  !.model = r.loaded[1].model,
                  !.last_training_metrics = r.loaded[1].last_training_metrics,
                  !.is_trained = r.loaded[1].is_trained,
                  !.model_version = r.loaded[1].model_version]
           /\ Return(h, "loaded")
           /\ UNCHANGED model_files
\* load_model, as /ml/load-model calls it
LoadStep(h) ==
    LET r == handlers[h] IN
    CASE r.pc = "set_version" ->
           \* a version was asked for: model_version and model_path name it
           /\ predictor' = IF r.version # None
                           THEN [predictor EXCEPT !.model_version = r.version[1],
                                                  !.model_path = r.version[1]]
                           ELSE predictor
           /\ handlers' = [handlers EXCEPT ![h].pc = "exists"]
           /\ UNCHANGED <<model_files, ret>>
      [] r.pc = "exists" ->
           \* os.path.exists(self.model_path); pickle.load(f)
           /\ IF predictor.model_path \notin DOMAIN model_files
              THEN Return(h, "missing")
              ELSE /\ handlers' = [handlers EXCEPT ![h].pc = "assign",
                          ![h].loaded = Some(model_files[predictor.model_path])]
                   /\ UNCHANGED ret
           /\ UNCHANGED <<predictor, model_files>>
      [] r.pc = "assign" ->
           \* the instance takes over what the file holds
           /\ predictor' = [predictor EXCEPT
                  !.model = r.loaded[1].model,
                  !.scaler = r.loaded[1].scaler,
                  !.last_training_metrics = r.loaded[1].last_training_metrics,
                  !.is_trained = r.loaded[1].is_trained,
                  !.model_version = r.loaded[1].model_version]
           /\ Return(h, "loaded")
           /\ UNCHANGED model_files

PredictStepMutant(h) ==
    /\ handlers' = [handlers EXCEPT ![h].pc = "done", ![h].result = "predicted",
                                     ![h].prediction = Some(Predict(predictor)),
                                     ![h].labels = Some(PredictionResult(handlers[h].raw))]
    /\ ret' = [op |-> "predict", val |-> Some(Predict(predictor)), raised |-> FALSE]
    /\ UNCHANGED <<predictor, model_files>>
\* predict, for a request whose samples the fitted model maps to the raw
\* outputs r.raw; int() of a NaN raises ValueError
PredictStep(h) ==
    /\ IF ~predictor.is_trained
       THEN Return(h, "not_trained")
       ELSE IF handlers[h].raw = <<>>
       THEN Return(h, "no_data")
       ELSE IF NpMean(handlers[h].raw).kind = "nan"
       THEN Return(h, "raised")
       ELSE /\ handlers' = [handlers EXCEPT ![h].pc = "done", ![h].result = "predicted",
                                 ![h].prediction = Some(Predict(predictor)),
                                 ![h].labels = Some(PredictionResult(handlers[h].raw))]
            /\ ret' = [op |-> "predict", val |-> Some(Predict(predictor)), raised |-> FALSE]
    /\ UNCHANGED <<predictor, model_files>>

\* the process starts anew: the module-level CognitiveLoadPredictor() is
\* constructed over the files on disk, and load_model() follows
ConstructStep(h) ==
    /\ predictor' = [NewPredictor EXCEPT !.model_version = LatestVersion,
                                         !.model_path = LatestVersion]
    /\ handlers' = [handlers EXCEPT ![h].pc = "exists"]
    /\ UNCHANGED <<model_files, ret>>

\* the running handler executes up to its next call
HandlerStep(h) ==
    /\ program = "backend"
    /\ h \in 1..Len(handlers)
    /\ Running(h)
    /\ CASE handlers[h].op \in {"train", "save"} -> TrainStep(h)
         [] handlers[h].op = "predict" -> PredictStep(h)
         [] handlers[h].pc = "construct" -> ConstructStep(h)
         [] OTHER -> LoadStep(h)
    /\ UNCHANGED <<program, now, eegVars, reader, alsVars, threads, obsVars>>

----------------------------------------------------------------------------
(* Construction                                                            *)

\* ConfusionModel.__init__; scaler and model name the training run that
\* fitted them (0: never fitted)
NewConfusionModel == [is_trained |-> FALSE, scaler |-> 0, model |-> 0, training_score |-> 0]

\* the module-level singletons of either program, freshly constructed, but
\* for the cards
ConstructedRest ==
    /\ now = 0
    /\ is_connected = FALSE
    /\ last_data_time = None
    /\ data_count = 0
    /\ recent_data = <<>>
    /\ deque_state = 0
    /\ reader = [pc |-> "idle"]
    /\ is_collecting = FALSE
    /\ eeg_buffer = <<>>
    /\ current_stage = "ready"
    /\ current_session = None
    /\ calibration_data = <<>>
    /\ confusion_model = NewConfusionModel
    /\ threads = <<>>
    /\ predictor = NewPredictor
    /\ model_files = <<>>
    /\ handlers = <<>>
    /\ accepted = <<>>
    /\ issued = 0
    /\ ret = [op |-> "none", val |-> None, raised |-> FALSE]

\* reset_system of adaptive_learning_app.py
ResetSystem ==
    /\ program = "examples"
    /\ current_stage' = "ready"
    /\ is_collecting' = FALSE
    /\ calibration_data' = <<>>
    /\ current_session' = None
    /\ confusion_model' = NewConfusionModel
    /\ ret' = [op |-> "reset_system", val |-> None, raised |-> FALSE]
    /\ UNCHANGED <<program, now, eegVars, reader, eeg_buffer, flashcards,
                   threads, mlVars, obsVars>>

Constructed == ConstructedRest /\ flashcards = <<>>

InitExamples == program = "examples" /\ Constructed
InitBackend == program = "backend" /\ Constructed

----------------------------------------------------------------------------
(* Specifications of the flashcard scheduler                               *)

\* user ratings a review request may carry
Ratings == {None, Some(0), Some(1), Some(3), Some(4), Some(6), Some(7), Some(8)}

TotalRepetitions == SumSeq([i \in 1..Len(flashcards) |-> flashcards[i].repetitions])

\* one card, reviewed a few times with every kind of rating, the clock running
NextCard ==
    \/ (flashcards = <<>> /\ AddFlashcard)
    \/ \E r \in Ratings, c \in 0..MaxNow :
          TotalRepetitions < MaxUpdatesCard /\ ProcessFlashcardReview(c, r, 5)
    \/ Tick(MaxNow)
SpecCard == InitExamples /\ [][NextCard]_vars

\* one card, reviewed many times at one clock reading
RangeRatings == {Some(3), Some(4), Some(7)}
NextRange ==
    \/ (flashcards = <<>> /\ AddFlashcard)
    \/ \E r \in RangeRatings :
          TotalRepetitions < MaxUpdatesRange /\ ProcessFlashcardReview(0, r, 5)
SpecRange == InitExamples /\ [][NextRange]_vars

\* one card, reviewed more often than the averaging window is long
HistRatings == {Some(2), Some(8)}
NextHistory ==
    \/ (flashcards = <<>> /\ AddFlashcard)
    \/ \E r \in HistRatings, c \in 0..MaxNowHist :
          TotalRepetitions < MaxUpdatesHist /\ ProcessFlashcardReview(c, r, 5)
    \/ Tick(MaxNowHist)
SpecHistory == InitExamples /\ [][NextHistory]_vars

\* several cards, added, reviewed and asked for, the clock running
SchedRatings == {Some(2), Some(5), Some(8)}
NextSched ==
    \/ (Len(flashcards) < MaxCards /\ AddFlashcard)
    \/ \E r \in SchedRatings, c \in 0..MaxNow :
          TotalRepetitions < MaxReviews /\ ProcessFlashcardReview(c, r, 5)
    \/ GetNextFlashcard
    \/ Tick(MaxNow)

\* one card more than the fallback list takes: the cards were added at six
\* earlier ticks and each has just been reviewed once, so none is due
InitSixCards ==
    /\ program = "examples"
    /\ ConstructedRest
    /\ \E scores \in [1..(FallbackSize + 1) -> {r[1] : r \in SchedRatings}] :
          flashcards = [i \in 1..(FallbackSize + 1) |->
              UpdateFromConfusion(NewFlashcard(i - (FallbackSize + 2)), scores[i], 0)]

SpecSched == (InitExamples \/ InitSixCards) /\ [][NextSched]_vars

----------------------------------------------------------------------------
(* Claims about Flashcard.update_from_confusion                            *)

ScoresOf(card) == [i \in 1..Len(card.confusion_history) |-> card.confusion_history[i].score]

\* the step is a review that updated card i with the score it reports
Reviewed(i) ==
    /\ Len(flashcards') = Len(flashcards)
    /\ flashcards'[i] # flashcards[i]
    /\ ret'.op = "process_flashcard_review"

C2_Step(i) ==
    LET old == flashcards[i]
        new == flashcards'[i]
        score == ret'.val[1].final_confusion
        halved == RMul(old.interval, <<1, 2>>)
        grown == RMul(old.interval, <<3, 2>>)
    IN  /\ score >= 7 =>
              /\ new.interval = (IF RLt(halved, <<1, 10>>) THEN <<1, 10>> ELSE halved)
              /\ new.ease_factor = (IF RLt(RSub(old.ease_factor, <<2, 10>>), <<13, 10>>)
                                    THEN <<13, 10>> ELSE RSub(old.ease_factor, <<2, 10>>))
        /\ (4 <= score /\ score < 7) =>
              /\ new.interval = old.interval
              /\ new.ease_factor = old.ease_factor
        /\ score < 4 =>
              /\ new.interval = (IF RLt(<<30, 1>>, grown) THEN <<30, 1>> ELSE grown)
              /\ new.ease_factor = (IF RLt(<<3, 1>>, RAdd(old.ease_factor, <<1, 10>>))
                                    THEN <<3, 1>> ELSE RAdd(old.ease_factor, <<1, 10>>))
        /\ new.repetitions = old.repetitions + 1
        /\ new.next_review = RAdd(<<now, 1>>, RMul(new.interval, <<TicksPerDay, 1>>))

C2_Examples ==
    \A i \in 1..Len(flashcards) :
        LET c == flashcards[i]
        IN  /\ ScoresOf(c) = <<8>> => c.interval = <<1, 2>> /\ c.ease_factor = <<23, 10>>
            /\ ScoresOf(c) = <<8, 8>> => c.interval = <<1, 4>> /\ c.ease_factor = <<21, 10>>
            /\ ScoresOf(c) = <<8, 8, 1>> => c.interval = <<3, 8>> /\ c.ease_factor = <<11, 5>>
            /\ c.repetitions = Len(c.confusion_history)

\* C2: update_from_confusion(score) halves the interval (floor 0.1) and lowers
\* the ease factor by 0.2 (floor 1.3) for score >= 7, leaves both for
\* 4 <= score < 7, and multiplies the interval by 1.5 (cap 30) and raises the
\* ease factor by 0.1 (cap 3.0) for score < 4; it always adds one repetition
\* and sets next_review to now + interval days.  From the defaults the scores
\* 8, 8, 1 give (0.5, 2.3), (0.25, 2.1), (0.375, 2.2), and n updates leave
\* repetition_count = n.
C2_UpdateTransition ==
    /\ [][\A i \in 1..Len(flashcards) : Reviewed(i) => C2_Step(i)]_vars
    /\ []C2_Examples

C2_Witness ==
    \E i \in 1..Len(flashcards) :
        /\ ScoresOf(flashcards[i]) = <<8, 8, 1>>
        /\ flashcards[i].repetitions = 3
        /\ ret.op = "process_flashcard_review"

\* C3: in every reachable state every card has 1.3 <= ease_factor <= 3.0,
\* 0.1 <= interval <= 30 and repetition_count >= 0.
C3_CardRanges ==
    \A i \in 1..Len(flashcards) :
        LET c == flashcards[i]
        IN  /\ RLe(<<13, 10>>, c.ease_factor) /\ RLe(c.ease_factor, <<3, 1>>)
            /\ RLe(<<1, 10>>, c.interval) /\ RLe(c.interval, <<30, 1>>)
            /\ c.repetitions >= 0

\* nine low scores in a row: the tenth would pass both caps
C3_Witness ==
    \E i \in 1..Len(flashcards) :
        /\ flashcards[i].repetitions >= 9
        /\ flashcards[i].interval = <<30, 1>>
        /\ flashcards[i].ease_factor = <<3, 1>>

\* C4 as stated: after n updates confusion_history holds at most 10 entries,
\* those of the most recent min(n, 10) updates.
C4_HistoryBounded ==
    \A i \in 1..Len(flashcards) :
        LET c == flashcards[i]
        IN  /\ Len(c.confusion_history) <= 10
            /\ Len(c.confusion_history) = (IF c.repetitions < 10 THEN c.repetitions ELSE 10)

C4_Step(i) ==
    LET old == flashcards[i].confusion_history
        new == flashcards'[i].confusion_history
    IN  /\ Len(new) = Len(old) + 1
        /\ SubSeq(new, 1, Len(old)) = old
        /\ new[Len(new)] = [score |-> ret'.val[1].final_confusion, timestamp |-> now]

\* C4, amended: confusion_history is never truncated; after n updates it holds
\* the {score, timestamp} entries of all n updates in submission order (only
\* the average is taken over the most recent 10).
C4_HistoryComplete ==
    /\ [][\A i \in 1..Len(flashcards) : Reviewed(i) => C4_Step(i)]_vars
    /\ [](\A i \in 1..Len(flashcards) :
             Len(flashcards[i].confusion_history) = flashcards[i].repetitions)

C4_Witness ==
    \E i \in 1..Len(flashcards) :
        /\ flashcards[i].repetitions = 11
        /\ Len(flashcards[i].confusion_history) = 11

----------------------------------------------------------------------------
(* Claims about get_next_flashcard.  A get_next_flashcard result stays in  *)
(* `ret` only while the cards are as the call saw them: adding or          *)
(* reviewing a card replaces `ret`.                                        *)

Returned == ret.op = "get_next_flashcard" /\ ret.val # None

\* position of the returned card
ReturnedAt == CHOOSE i \in 1..Len(flashcards) : flashcards[i].id = ret.val[1]

DueAt(i) == flashcards[i].next_review[1] <= ret.at * flashcards[i].next_review[2]

\* hours overdue at the time of the call, never negative
OverdueHours(i) ==
    LET late == RSub(<<ret.at, 1>>, flashcards[i].next_review)
    IN  IF late[1] < 0 THEN <<0, 1>> ELSE RMul(late, <<24, TicksPerDay>>)

ClaimedPriority(i) == RAdd(RMul(flashcards[i].avg_confusion, <<2, 1>>), OverdueHours(i))

\* fewer than five cards have a higher avg_confusion
AmongTopFive(i) ==
    Cardinality({j \in 1..Len(flashcards) :
                    RLt(flashcards[i].avg_confusion, flashcards[j].avg_confusion)}) < 5

ClaimedCandidate(i) ==
    IF \E j \in 1..Len(flashcards) : DueAt(j) THEN DueAt(i) ELSE AmongTopFive(i)

ThreeDue ==
    /\ Len(flashcards) = 3
    /\ \A i \in 1..3 : DueAt(i) /\ flashcards[i].next_review = flashcards[1].next_review
    /\ {flashcards[i].avg_confusion : i \in 1..3} = {<<2, 1>>, <<5, 1>>, <<8, 1>>}

\* C5: get_next_flashcard returns none exactly when there are no cards;
\* otherwise it returns a card of the candidate set (the due cards, or when none
\* is due the at most 5 cards of highest avg_confusion) whose priority
\* avg_confusion * 2 + max(0, hours overdue) is the largest among the
\* candidates; never a card that is not due while a due card exists; and of
\* three due cards with equal overdue time and avg_confusion 2, 5, 8 the one
\* with 8.
C5_NextCard ==
    ret.op = "get_next_flashcard" =>
        /\ (ret.val = None) <=> (flashcards = <<>>)
        /\ ret.val # None =>
              /\ \E i \in 1..Len(flashcards) : flashcards[i].id = ret.val[1]
              /\ ClaimedCandidate(ReturnedAt)
              /\ \A j \in 1..Len(flashcards) :
                    ClaimedCandidate(j) => RLe(ClaimedPriority(j), ClaimedPriority(ReturnedAt))
              /\ (\E j \in 1..Len(flashcards) : DueAt(j)) => DueAt(ReturnedAt)
              /\ ThreeDue => flashcards[ReturnedAt].avg_confusion = <<8, 1>>

C5_Witness == Returned /\ ThreeDue /\ flashcards[ReturnedAt].avg_confusion = <<8, 1>>

\* the candidates that share the largest priority
TopCandidate(i) ==
    /\ ClaimedCandidate(i)
    /\ \A j \in 1..Len(flashcards) :
          ClaimedCandidate(j) => RLe(ClaimedPriority(j), ClaimedPriority(i))

\* C6 as stated: among the candidates of largest priority the one with the
\* lowest repetition_count is returned, and among those the smallest id.
C6_TieByRepetitions ==
    Returned =>
        \A j \in 1..Len(flashcards) :
            TopCandidate(j) =>
                \/ flashcards[ReturnedAt].repetitions < flashcards[j].repetitions
                \/ /\ flashcards[ReturnedAt].repetitions = flashcards[j].repetitions
                   /\ flashcards[ReturnedAt].id <= flashcards[j].id

\* C6, amended: among the candidates of largest priority the one stored first
\* (the one added first) is returned, whatever the repetition counts; the
\* result depends on the order in which the cards were added.
C6_TieByStorageOrder ==
    Returned =>
        /\ TopCandidate(ReturnedAt)
        /\ \A j \in 1..Len(flashcards) : TopCandidate(j) => ReturnedAt <= j

\* two candidates tie and the one returned has been reviewed more often
C6_Witness ==
    /\ Returned
    /\ \E j \in 1..Len(flashcards) :
          /\ j # ReturnedAt
          /\ TopCandidate(j)
          /\ flashcards[j].repetitions < flashcards[ReturnedAt].repetitions

----------------------------------------------------------------------------
(* Ingestion: either program receives datagrams until its buffer has       *)
(* wrapped around                                                          *)

NextIngest ==
    \/ \E kind \in DatagramKinds :
          data_count < RecentDataMaxlen + MaxExtra /\ EegHandler(kind)
    \/ \E kind \in DatagramKinds :
          Len(accepted) < EegBufferMaxlen + MaxExtra /\ AlsEegHandler(kind)
    \/ (~is_collecting /\ StartCalibration)
    \/ (is_collecting /\ ResetSystem)
SpecIngest == (InitBackend \/ InitExamples) /\ [][NextIngest]_vars

\* the ring buffer of the running program and its capacity
Buffer == IF program = "backend" THEN recent_data ELSE eeg_buffer
Capacity == IF program = "backend" THEN 100 ELSE 2560

\* C1: the buffer never holds more than C samples (C = 100 for EEGService,
\* 2560 for AdaptiveLearningSystem), and it holds exactly the last
\* min(C, n) of the n samples accepted so far, in arrival order.
C1_RingBuffer ==
    /\ Len(Buffer) <= Capacity
    /\ Len(accepted) <= Capacity => Buffer = accepted
    /\ Len(accepted) > Capacity =>
          Buffer = SubSeq(accepted, Len(accepted) - Capacity + 1, Len(accepted))

C1_Witness == Len(accepted) = Capacity + 2 /\ Len(Buffer) = Capacity

----------------------------------------------------------------------------
(* Reads of the ring buffer while the ingestion thread appends             *)

NextRead ==
    \/ (data_count < MaxReadSamples /\ EegHandler("ok"))
    \/ \E op \in {"get_connection_status", "get_live_data"} : StartRead(op)
    \/ ReadNext
    \/ StartSecondPass
    \/ GetLatestSample
SpecRead == InitBackend /\ [][NextRead]_vars

ReadOps == {"get_connection_status", "get_live_data", "get_latest_sample"}

\* C8: a read that runs while the ingestion thread appends never fails, and
\* what it returns was computed from the samples the buffer held at one
\* instant, in arrival order.
C8_ReadsNeverFail ==
    ret.op \in ReadOps =>
        ~ret.raised

----------------------------------------------------------------------------
(* Reviews on Flask request threads                                        *)
(*                                                                         *)
(* app.run(debug=True) serves every request on a thread of its own and the *)
(* code takes no lock.  A thread runs process_flashcard_review in steps;   *)
(* the interpreter may switch threads where a call returns (datetime.now,  *)
(* list.append, np.mean, max, min, timedelta), which it does in every      *)
(* CPython version, so each step below runs from one such point to the     *)
(* next.  tmp is the value the thread holds on its stack across the point. *)

MaxThreads == 2          \* review requests served in SpecReview
MaxTrains == 2           \* finish_calibration requests served in SpecTrain
MaxPredicts == 1         \* review requests served in SpecTrain

\* the threads started so far that serve the request `op`
Serving(op) == {k \in 1..Len(threads) : threads[k].op = op}

NewThread(op) ==
    [op |-> op, pc |-> "start", card_id |-> 0, user_rating |-> None, score |-> 0,
     predicted |-> None, tmp |-> None, used |-> None]

\* process_flashcard_review up to the call of card.update_from_confusion
ReviewStart(card_id, user_rating) ==
    /\ program = "examples"
    /\ LET i == CardIndex(flashcards, card_id)
           features == ExtractFeatures(eeg_buffer)
       IN  IF i = 0
           THEN /\ ret' = [op |-> "process_flashcard_review", val |-> None, raised |-> FALSE]
                /\ UNCHANGED threads
           ELSE /\ threads' = Append(threads,
                        [NewThread("review") EXCEPT
                            !.card_id = card_id, !.user_rating = user_rating,
                            !.score = ScoreOf(None, user_rating),
                            !.pc = IF features # None /\ confusion_model.is_trained
                                   THEN "transform" ELSE "append"])
                /\ UNCHANGED ret
    /\ UNCHANGED <<program, now, eegVars, reader, alsVars, mlVars, obsVars>>

\* the step of thread k from one switch point to the next
ReviewStep(k) ==
    /\ program = "examples"
    /\ k \in 1..Len(threads)
    /\ threads[k].op = "review"
    /\ threads[k].pc # "done"
    /\ LET t == threads[k]
           i == CardIndex(flashcards, t.card_id)
           card == flashcards[i]
       IN  CASE t.pc = "transform" ->
                  \* ConfusionModel.predict: self.scaler.transform(X) returns
                  /\ threads' = [threads EXCEPT ![k].pc = "predict",
                                     ![k].tmp = Some(confusion_model.scaler)]
                  /\ UNCHANGED <<flashcards, current_session, ret>>
             [] t.pc = "predict" ->
                  \* self.model.predict(X_scaled)[0], clamped; the score is it
                  /\ \E raw \in RawOutputs :
                        threads' = [threads EXCEPT ![k].pc = "append",
                            ![k].tmp = None,
                            ![k].used = Some([scaler |-> t.tmp[1],
                                              model |-> confusion_model.model]),
                            ![k].predicted = Some(Clamp(raw)),
                            ![k].score = ScoreOf(Some(Clamp(raw)), t.user_rating)]
                  /\ UNCHANGED <<flashcards, current_session, ret>>
             [] t.pc = "append" ->
                  \* self.last_confusion = ...; self.confusion_history.append(...)
                  /\ flashcards' = [flashcards EXCEPT ![i] =
                        [card EXCEPT !.last_confusion = Some(t.score),
                                     !.confusion_history =
                                         HistoryAfter(@, [score |-> t.score, timestamp |-> now])]]
                  /\ threads' = [threads EXCEPT ![k].pc = "mean"]
                  /\ UNCHANGED <<current_session, ret>>
             [] t.pc = "mean" ->
                  \* np.mean(recent_scores) returns
                  /\ threads' = [threads EXCEPT ![k].pc = "store_avg",
                                     ![k].tmp = Mean(RecentScores(card.confusion_history))]
                  /\ UNCHANGED <<flashcards, current_session, ret>>
             [] t.pc = "store_avg" ->
                  \* self.avg_confusion = ...; the medium branch has no call in it
                  IF Medium(t.score) /\ ~High(t.score)
                  THEN /\ flashcards' = [flashcards EXCEPT ![i] =
                             [card EXCEPT !.avg_confusion = t.tmp,
                                          !.interval = IntervalAfter(@, t.score)]]
                       /\ threads' = [threads EXCEPT ![k].pc = "next_review", ![k].tmp = None]
                       /\ UNCHANGED <<current_session, ret>>
                  ELSE /\ flashcards' = [flashcards EXCEPT ![i].avg_confusion = t.tmp]
                       /\ threads' = [threads EXCEPT ![k].pc = "store_interval",
                                          ![k].tmp = IntervalAfter(card.interval, t.score)]
                       /\ UNCHANGED <<current_session, ret>>
             [] t.pc = "store_interval" ->
                  \* self.interval = <max or min returned>; max/min of the ease
                  /\ flashcards' = [flashcards EXCEPT ![i].interval = t.tmp]
                  /\ threads' = [threads EXCEPT ![k].pc = "store_ease",
                                     ![k].tmp = EaseAfter(card.ease_factor, t.score)]
                  /\ UNCHANGED <<current_session, ret>>
             [] t.pc = "store_ease" ->
                  \* self.ease_factor = <max or min returned>; datetime.now()
                  /\ flashcards' = [flashcards EXCEPT ![i].ease_factor = t.tmp]
                  /\ threads' = [threads EXCEPT ![k].pc = "next_review", ![k].tmp = None]
                  /\ UNCHANGED <<current_session, ret>>
             [] t.pc = "next_review" ->
                  \* self.next_review = now + timedelta(...); self.repetitions += 1
                  /\ flashcards' = [flashcards EXCEPT ![i] =
                        [card EXCEPT !.next_review = RAdd(R(now), Days(card.interval)),
                                     !.repetitions = @ + 1]]
                  /\ threads' = [threads EXCEPT ![k].pc = "record"]
                  /\ UNCHANGED <<current_session, ret>>
             [] t.pc = "record" ->
                  \* review_data, the session's record of it, return
                  /\ threads' = [threads EXCEPT ![k].pc = "done"]
                  /\ UNCHANGED flashcards
                  /\ IF current_session = None
                     THEN /\ UNCHANGED current_session
                          /\ ret' = [op |-> "process_flashcard_review",
                                     val |-> Some([card_id |-> t.card_id,
                                                   final_confusion |-> t.score,
                                                   predicted_confusion |-> t.predicted]),
                                     raised |-> FALSE]
                     ELSE IF current_session[1].stage = "learning"
                     THEN /\ current_session' =
                                Some([current_session[1] EXCEPT !.cards_reviewed =
                                         Append(@, [card_id |-> t.card_id,
                                                    final_confusion |-> t.score])])
                          /\ ret' = [op |-> "process_flashcard_review",
                                     val |-> Some([card_id |-> t.card_id,
                                                   final_confusion |-> t.score,
                                                   predicted_confusion |-> t.predicted]),
                                     raised |-> FALSE]
                     ELSE /\ UNCHANGED current_session
                          /\ ret' = [op |-> "process_flashcard_review",
                                     val |-> None, raised |-> TRUE]
    /\ UNCHANGED <<program, now, eegVars, reader, is_collecting, eeg_buffer,
                   current_stage, calibration_data, confusion_model,
                   mlVars, obsVars>>

----------------------------------------------------------------------------
(* Calibration and the training of the ConfusionModel                      *)

NumPrompts == 20         \* len(self.calibration_prompts)
TrainMinSamples == 5     \* ConfusionModel.train needs this many trials

\* AdaptiveLearningSystem.get_calibration_prompt; a learning session has no
\* 'trials' key, so appending the trial to it raises KeyError
GetCalibrationPrompt(prompt_index) ==
    /\ program = "examples"
    /\ IF current_session = None \/ prompt_index >= NumPrompts
       THEN /\ ret' = [op |-> "get_calibration_prompt", val |-> None, raised |-> FALSE]
            /\ UNCHANGED <<eeg_buffer, current_session, issued>>
       ELSE /\ eeg_buffer' = <<>>
            /\ IF current_session[1].stage = "calibration"
               THEN /\ issued' = Len(accepted)
                    /\ current_session' =
                          Some([current_session[1] EXCEPT !.trials =
                                   Append(@, [trial_id |-> prompt_index,
                                              confusion_score |-> None,
                                              eeg_features |-> None])])
                    /\ ret' = [op |-> "get_calibration_prompt",
                               val |-> Some(prompt_index), raised |-> FALSE]
               ELSE /\ UNCHANGED <<current_session, issued>>
                    /\ ret' = [op |-> "get_calibration_prompt", val |-> None, raised |-> TRUE]
    /\ UNCHANGED <<program, now, eegVars, reader, is_collecting, current_stage,
                   calibration_data, flashcards, confusion_model, threads,
                   mlVars, accepted>>

\* AdaptiveLearningSystem.submit_calibration_score
SubmitCalibrationScore(confusion_score) ==
    /\ program = "examples"
    /\ IF current_session = None
       THEN /\ ret' = [op |-> "submit_calibration_score", val |-> Some(FALSE), raised |-> FALSE]
            /\ UNCHANGED <<current_session, calibration_data>>
       ELSE IF current_session[1].stage # "calibration"
       THEN /\ ret' = [op |-> "submit_calibration_score", val |-> None, raised |-> TRUE]
            /\ UNCHANGED <<current_session, calibration_data>>
       ELSE IF current_session[1].trials = <<>>
       THEN /\ ret' = [op |-> "submit_calibration_score", val |-> Some(FALSE), raised |-> FALSE]
            /\ UNCHANGED <<current_session, calibration_data>>
       ELSE LET features == ExtractFeatures(eeg_buffer)
                n == Len(current_session[1].trials)
            IN  /\ current_session' =
                      Some([current_session[1] EXCEPT
                               !.trials[n].confusion_score = Some(confusion_score),
                               !.trials[n].eeg_features =
                                   IF features # None THEN features ELSE @])
                /\ calibration_data' =
                      IF features # None
                      THEN Append(calibration_data,
                                  [features |-> features[1],
                                   confusion_score |-> confusion_score])
                      ELSE calibration_data
                /\ ret' = [op |-> "submit_calibration_score", val |-> Some(TRUE), raised |-> FALSE]
    /\ UNCHANGED <<program, now, eegVars, reader, is_collecting, eeg_buffer,
                   current_stage, flashcards, confusion_model, threads,
                   mlVars, obsVars>>

\* AdaptiveLearningSystem.start_learning_session
StartLearningSession ==
    /\ program = "examples"
    /\ IF ~confusion_model.is_trained
       THEN /\ ret' = [op |-> "start_learning_session", val |-> None, raised |-> FALSE]
            /\ UNCHANGED <<current_stage, is_collecting, current_session>>
       ELSE /\ current_stage' = "learning"
            /\ is_collecting' = TRUE
            /\ current_session' =
                  Some([session_id |-> now, stage |-> "learning", cards_reviewed |-> <<>>])
            /\ ret' = [op |-> "start_learning_session", val |-> Some(now), raised |-> FALSE]
    /\ UNCHANGED <<program, now, eegVars, reader, eeg_buffer, calibration_data,
                   flashcards, confusion_model, threads, mlVars, obsVars>>

\* AdaptiveLearningSystem.generate_results: the statistics are computed from
\* the session, the model and the cards and written to a results file
GenerateResults ==
    /\ program = "examples"
    /\ ret' = [op |-> "generate_results",
               val |-> IF current_session = None THEN None
                       ELSE Some(current_session[1].session_id),
               raised |-> FALSE]
    /\ UNCHANGED <<program, now, eegVars, reader, alsVars, threads, mlVars, obsVars>>

\* finish_calibration up to the call of self.confusion_model.train
FinishStart ==
    /\ program = "examples"
    /\ IF calibration_data = <<>>
       THEN /\ ret' = [op |-> "finish_calibration", val |-> Some(FALSE), raised |-> FALSE]
            /\ UNCHANGED threads
       ELSE /\ threads' = Append(threads,
                  [NewThread("finish_calibration") EXCEPT !.pc = "train"])
            /\ UNCHANGED ret
    /\ UNCHANGED <<program, now, eegVars, reader, alsVars, mlVars, obsVars>>

\* ConfusionModel.train and the rest of finish_calibration, on thread k; the
\* training run is named by the thread that runs it
FinishStep(k) ==
    /\ program = "examples"
    /\ k \in 1..Len(threads)
    /\ threads[k].op = "finish_calibration"
    /\ threads[k].pc # "done"
    /\ LET t == threads[k] IN
       CASE t.pc = "train" ->
              \* if len(features_list) < 5: return False
              /\ IF Len(calibration_data) < TrainMinSamples
                 THEN /\ threads' = [threads EXCEPT ![k].pc = "done"]
                      /\ ret' = [op |-> "finish_calibration", val |-> Some(FALSE),
                                 raised |-> FALSE]
                 ELSE /\ threads' = [threads EXCEPT ![k].pc = "fit_scaler"]
                      /\ UNCHANGED ret
              /\ UNCHANGED <<confusion_model, current_stage, is_collecting>>
         [] t.pc = "fit_scaler" ->
              \* X_scaled = self.scaler.fit_transform(X)
              /\ confusion_model' = [confusion_model EXCEPT !.scaler = k]
              /\ threads' = [threads EXCEPT ![k].pc = "fit_model"]
              /\ UNCHANGED <<current_stage, is_collecting, ret>>
         [] t.pc = "fit_model" ->
              \* self.model.fit(X_scaled, y)
              /\ confusion_model' = [confusion_model EXCEPT !.model = k]
              /\ threads' = [threads EXCEPT ![k].pc = "score"]
              /\ UNCHANGED <<current_stage, is_collecting, ret>>
         [] t.pc = "score" ->
              \* self.training_score = {...}; self.is_trained = True
              /\ confusion_model' = [confusion_model EXCEPT !.training_score = k,
                                                            !.is_trained = TRUE]
              /\ threads' = [threads EXCEPT ![k].pc = "finish"]
              /\ UNCHANGED <<current_stage, is_collecting, ret>>
         [] t.pc = "finish" ->
              \* back in finish_calibration: the stage, collection stops
              /\ current_stage' = "ready_for_learning"
              /\ is_collecting' = FALSE
              /\ threads' = [threads EXCEPT ![k].pc = "done"]
              /\ ret' = [op |-> "finish_calibration", val |-> Some(TRUE), raised |-> FALSE]
              /\ UNCHANGED confusion_model
    /\ UNCHANGED <<program, now, eegVars, reader, eeg_buffer, current_session,
                   calibration_data, flashcards, mlVars, obsVars>>

\* one card and the review requests for it, each on its own thread
ReviewRatings == {Some(1), Some(5), Some(8)}
NextReview ==
    \/ (flashcards = <<>> /\ AddFlashcard)
    \/ \E r \in ReviewRatings : Len(threads) < MaxThreads /\ ReviewStart(0, r)
    \/ \E k \in 1..Len(threads) : ReviewStep(k)
SpecReview == InitExamples /\ [][NextReview]_vars

\* the card after the reviews with scores s1 then s2, run one after the other
SerialResult(s1, s2) ==
    UpdateFromConfusion(UpdateFromConfusion(NewFlashcard(0), s1, now), s2, now)

\* the fields of the card the schedule is made of
SameSchedule(a, b) ==
    /\ a.repetitions = b.repetitions
    /\ ScoresOf(a) = ScoresOf(b)
    /\ a.interval = b.interval
    /\ a.ease_factor = b.ease_factor

\* C7: when two reviews of the same card run concurrently, the card ends in
\* the state that running the two update_from_confusion calls one after the
\* other, in one of the two orders, would leave: repetitions raised by 2,
\* both scores in the history, interval and ease_factor adjusted twice.
C7_ReviewsSerialize ==
    (Len(threads) = 2 /\ \A k \in 1..2 : threads[k].pc = "done") =>
        \/ SameSchedule(flashcards[1], SerialResult(threads[1].score, threads[2].score))
        \/ SameSchedule(flashcards[1], SerialResult(threads[2].score, threads[1].score))

----------------------------------------------------------------------------
(* The /ml endpoints of the backend                                        *)

NextModel ==
    \/ \E req \in Requests : Len(handlers) < MaxRequests /\ Arrive(req)
    \/ \E h \in 1..Len(handlers) : Start(h)
    \/ \E h \in 1..Len(handlers) : HandlerStep(h)
SpecModel == InitBackend /\ [][NextModel]_vars

\* the request has written its model file
HasSaved(h) ==
    /\ handlers[h].op = "train"
    /\ handlers[h].pc \in {"save_update", "done"}
    /\ handlers[h].save_path # 0

\* C10: train, save and load on the predictor exclude one another: at most
\* one of the requests is between its first and its last step, every model
\* file holds the model, scaler and metrics of one training run under the
\* version its path names, and two train requests that overlap and save as
\* a new version write under different version ids.
C10_Exclusive ==
    /\ \A h1, h2 \in 1..Len(handlers) : Running(h1) /\ Running(h2) => h1 = h2
    /\ \A v \in DOMAIN model_files :
          /\ model_files[v].model # 0
          /\ model_files[v].scaler = model_files[v].model
          /\ model_files[v].last_training_metrics = model_files[v].model
          /\ model_files[v].model_version = v
    /\ \A h1, h2 \in 1..Len(handlers) :
          ( /\ h1 # h2
            /\ HasSaved(h1) /\ handlers[h1].new_version
            /\ HasSaved(h2) /\ handlers[h2].new_version )
          => handlers[h1].save_version # handlers[h2].save_version

\* two train requests, the second received while the first was running, have
\* both saved as a new version
C10_Witness ==
    \E h1, h2 \in 1..Len(handlers) :
       /\ h1 # h2
       /\ handlers[h1].result = "saved" /\ handlers[h1].new_version
       /\ handlers[h2].result = "saved" /\ handlers[h2].new_version
       /\ handlers[h2].waited
       /\ handlers[h1].save_version # handlers[h2].save_version

----------------------------------------------------------------------------
(* Calibration, training and reviews of the Flask application              *)

CalibrationScores == {8}
NextTrain ==
    \/ (current_session = None /\ StartCalibration)
    \/ \E idx \in {0, NumPrompts} :
          (current_session # None => current_session[1].trials = <<>>)
          /\ GetCalibrationPrompt(idx)
    \/ \E kind \in DatagramKinds : Len(accepted) < MinSamples /\ AlsEegHandler(kind)
    \/ \E sc \in CalibrationScores :
          /\ Len(calibration_data) < TrainMinSamples
          /\ Len(eeg_buffer) \in {0, MinSamples}
          /\ SubmitCalibrationScore(sc)
    \/ (Cardinality(Serving("finish_calibration")) < MaxTrains /\ FinishStart)
    \/ \E k \in 1..Len(threads) : FinishStep(k)
    \/ (flashcards = <<>> /\ confusion_model.is_trained /\ AddFlashcard)
    \/ (Cardinality(Serving("review")) < MaxPredicts /\ ReviewStart(0, Some(5)))
    \/ \E k \in 1..Len(threads) : ReviewStep(k)
SpecTrain == InitExamples /\ [][NextTrain]_vars

\* C9: when train runs while predict calls are made on a trained regressor,
\* every predict computes its result from the scaler and the coefficients of
\* one training run, never the scaler of one run with the coefficients of
\* another.
C9_PredictOneRun ==
    \A k \in 1..Len(threads) :
       (threads[k].op = "review" /\ threads[k].used # None)
          => threads[k].used[1].scaler = threads[k].used[1].model

----------------------------------------------------------------------------
(* Connection state of the EEGService: datagrams, other OSC messages and   *)
(* status queries as the clock runs                                        *)

NextConn ==
    \/ \E kind \in DatagramKinds :
          (kind # "short" => data_count < MaxConnDatagrams) /\ EegHandler(kind)
    \/ OtherHandler
    \/ StartRead("get_connection_status")
    \/ ReadNext
    \/ StartSecondPass
    \/ Tick(MaxNowConn)
SpecConn == InitBackend /\ [][NextConn]_vars

\* the time the last sample was ingested
LastSampleTime == accepted[Len(accepted)].timestamp

\* the step begins a get_connection_status query
QueryBegins ==
    /\ reader.pc = "idle"
    /\ reader'.pc # "idle"
    /\ reader'.op = "get_connection_status"

\* C11: connected is false until the first sample is ingested and becomes
\* true at that ingestion; afterwards it changes from true to false only in
\* a step of a get_connection_status query at which now minus the time of
\* the last ingested sample exceeds connection_timeout.
C11_ConnectedFlips ==
    [][ /\ (accepted = <<>> => ~is_connected)
        /\ (accepted' = <<>> => ~is_connected')
        /\ (accepted = <<>> /\ accepted' # <<>> => is_connected')
        /\ (is_connected /\ ~is_connected' =>
               /\ QueryBegins
               /\ accepted # <<>>
               /\ now - LastSampleTime > ConnectionTimeout) ]_vars

\* the query whose result is in `ret` began when every ingested sample was
\* older than connection_timeout, or none had been ingested
StaleAtQuery ==
    \A i \in 1..Len(accepted) :
       ret.val[1].session_duration - accepted[i].timestamp > ConnectionTimeout

\* C12: a get_connection_status query made when no sample was ingested
\* within the last connection_timeout seconds, or none ever, reports
\* connected = false and quality "disconnected", whatever was received
\* before it.
C12_StaleIsDisconnected ==
    (ret.op = "get_connection_status" /\ ~ret.raised /\ StaleAtQuery) =>
        /\ ~ret.val[1].is_connected
        /\ ret.val[1].connection_quality = "disconnected"

----------------------------------------------------------------------------
(* The quality tier of a stream of samples                                 *)

\* a stream of samples arriving within one second, and the first status
\* query of the session, made in a gap between two samples
NextRate ==
    \/ (data_count < MaxRateSamples /\ reader.pc = "idle" /\ EegHandler("ok"))
    \/ (ret.op = "none" /\ StartRead("get_connection_status"))
    \/ ReadNext
    \/ StartSecondPass
SpecRate == InitBackend /\ [][NextRate]_vars

\* the samples ingested before the returned query read data_count whose
\* timestamp lies in the second before the query's clock reading
TrailingSecond ==
    { i \in 1..ret.val[1].data_count :
         ret.val[1].session_duration - accepted[i].timestamp <= RateWindow }

\* C13: a status query that reports connected reports the tier of the number
\* n of samples ingested in the trailing second: excellent for n >= 200,
\* good for 100..199, fair for 50..99, poor below 50
C13_TierOfTrailingSecond ==
    (ret.op = "get_connection_status" /\ ~ret.raised /\ ret.val[1].is_connected) =>
        ret.val[1].connection_quality = Quality(TRUE, Cardinality(TrailingSecond))

----------------------------------------------------------------------------
(* Malformed datagrams                                                     *)

\* the datagrams that are not four numbers
Malformed == {"short", "nonnumeric"}

\* C14: a malformed datagram is dropped: the buffer, the connected flag, the
\* time of the last sample and the sample counter are after the handler what
\* they were before it
C14_MalformedDropped ==
    [][ \A kind \in Malformed :
           (EegHandler(kind) \/ AlsEegHandler(kind)) =>
               UNCHANGED <<recent_data, eeg_buffer, is_connected, last_data_time,
                           data_count>> ]_vars

----------------------------------------------------------------------------
(* The predictor and its model files, one call after another               *)

\* the calls on the module-level predictor: /ml/train, save_model,
\* load_model, predict, and a restart of the process
Calls ==
    Requests
    \cup [op : {"save"}, new_version : BOOLEAN, data : {"none"}, version : {None},
          raw : {<<>>}]
    \cup [op : {"restart"}, new_version : {FALSE}, data : {"none"}, version : {None},
          raw : {<<>>}]
    \cup [op : {"predict"}, new_version : {FALSE}, data : {"none"}, version : {None},
          raw : {<<Finite(R(2))>>}]

\* a call is made when the call before it has returned
NextStore ==
    \/ \E call \in Calls :
          /\ Len(handlers) < MaxCalls
          /\ \A h \in 1..Len(handlers) : handlers[h].pc = "done"
          /\ Arrive(call)
    \/ \E h \in 1..Len(handlers) : Start(h)
    \/ \E h \in 1..Len(handlers) : HandlerStep(h)
SpecStore == InitBackend /\ [][NextStore]_vars

\* the call has trained or loaded a model
Succeeded(h) ==
    \/ /\ handlers[h].op = "train"
       /\ \/ handlers[h].pc \in {"save_version", "save_write", "save_update"}
          \/ handlers[h].result \in {"saved", "not_saved"}
    \/ handlers[h].op \in {"load", "restart"} /\ handlers[h].result = "loaded"

NeverSucceeded == \A h \in 1..Len(handlers) : ~Succeeded(h)

\* the call has returned
Done(h) == handlers[h].pc = "done"

\* C15: as long as no train and no load has succeeded (failed trains, failed
\* loads and restarts included), the instance is untrained, predict returns
\* the not-trained failure without a prediction, and save_model returns
\* failure, writes no file and changes neither model_version nor model_path
C15_UntrainedFails ==
    [][ NeverSucceeded' =>
           /\ ~predictor'.is_trained
           /\ model_files' = model_files
           /\ \A h \in 1..Len(handlers') :
                 /\ (handlers'[h].op = "predict" /\ handlers'[h].pc = "done") =>
                        /\ handlers'[h].result = "not_trained"
                        /\ handlers'[h].prediction = None
                 /\ (handlers'[h].op = "save" /\ handlers'[h].pc = "done") =>
                        handlers'[h].result = "not_saved"
           /\ \A h \in 1..Len(handlers) :
                 (handlers[h].op = "save" /\ Running(h)) =>
                    /\ predictor'.model_version = predictor.model_version
                    /\ predictor'.model_path = predictor.model_path ]_vars

\* a train that raised, a load that found no file, then a save or a predict
\* that failed, with no success before
C15_Witness ==
    /\ NeverSucceeded
    /\ \E h1, h2, h3 \in 1..Len(handlers) :
          /\ handlers[h1].op = "train" /\ handlers[h1].result = "raised"
          /\ handlers[h2].op = "load" /\ handlers[h2].result = "missing"
          /\ h1 < h3 /\ h2 < h3
          /\ handlers[h3].result \in {"not_trained", "not_saved"}

\* the highest version among the model files; with no file, the version the
\* code counts from
HighestExisting ==
    IF DOMAIN model_files = {} THEN 1
    ELSE CHOOSE v \in DOMAIN model_files : \A w \in DOMAIN model_files : v >= w

\* the save_model call h writes its file in this step
Writes(h) == handlers[h].pc = "save_write" /\ handlers'[h].pc = "save_update"

\* C16: save_model as a new version writes a file that did not exist, under
\* the highest existing version plus one (2 when there is no file), keeps
\* every other file and makes that version the active one; save_model as
\* overwrite writes under the active version and leaves the active version
\* as it is
C16_SaveVersions ==
    [][ \A h \in 1..Len(handlers) :
           /\ (Writes(h) /\ handlers[h].new_version) =>
                 /\ handlers[h].save_path = HighestExisting + 1
                 /\ handlers[h].save_version = HighestExisting + 1
                 /\ handlers[h].save_path \notin DOMAIN model_files
                 /\ DOMAIN model_files' = DOMAIN model_files \cup {handlers[h].save_path}
                 /\ \A v \in DOMAIN model_files : model_files'[v] = model_files[v]
                 /\ model_files'[handlers[h].save_path].model_version = handlers[h].save_version
           /\ (Writes(h) /\ ~handlers[h].new_version) =>
                 /\ handlers[h].save_path = predictor.model_version
                 /\ handlers[h].save_version = predictor.model_version
                 /\ DOMAIN model_files' = DOMAIN model_files \cup {predictor.model_version}
                 /\ \A v \in DOMAIN model_files \ {predictor.model_version} :
                        model_files'[v] = model_files[v]
           /\ (handlers[h].pc = "save_update" /\ handlers'[h].pc = "done") =>
                 /\ handlers[h].new_version =>
                        predictor'.model_version = handlers[h].save_version
                 /\ ~handlers[h].new_version =>
                        predictor'.model_version = predictor.model_version ]_vars

\* a new version was saved over an existing file, and an overwrite followed
C16_Witness ==
    \E h1, h2, h3 \in 1..Len(handlers) :
       /\ h1 < h2 /\ h2 < h3
       /\ \A h \in {h1, h2, h3} : handlers[h].result = "saved"
       /\ handlers[h1].new_version /\ handlers[h2].new_version
       /\ handlers[h2].save_version = handlers[h1].save_version + 1
       /\ ~handlers[h3].new_version
       /\ handlers[h3].save_version = handlers[h2].save_version
       /\ predictor.model_version = handlers[h2].save_version

\* the load_model call h returns in this step
LoadReturns(h) ==
    handlers[h].op = "load" /\ handlers[h].pc # "done" /\ handlers'[h].pc = "done"

\* the instance holds what the file of version v holds
Holds(p, v) ==
    /\ p.is_trained
    /\ p.model_version = v
    /\ p.model = model_files[v].model
    /\ p.scaler = model_files[v].scaler

\* C17: load_model without a version loads the file of the highest existing
\* version, load_model(v) loads the file of version v, and either returns
\* false exactly when there is no such file
C17_LoadVersions ==
    [][ \A h \in 1..Len(handlers) :
           LoadReturns(h) =>
              LET v == IF handlers[h].version = None THEN HighestExisting
                       ELSE handlers[h].version[1]
              IN  IF v \in DOMAIN model_files
                  THEN handlers'[h].result = "loaded" /\ Holds(predictor', v)
                  ELSE handlers'[h].result = "missing" ]_vars

\* the save_model call that wrote the file of version v as it is now
SavedBy(v) == model_files[v].saved_by

\* C18: a load_model(v) that finds the file of version v leaves an instance
\* whose predict gives what predict gave on the instance that save_model
\* stored in that file, whatever train, load or restart came in between
C18_RoundTrip ==
    [][ \A h \in 1..Len(handlers) :
           (LoadReturns(h) /\ handlers[h].version # None
              /\ handlers[h].version[1] \in DOMAIN model_files) =>
                 /\ handlers'[h].result = "loaded"
                 /\ predictor'.is_trained
                 /\ Some(Predict(predictor')) =
                       handlers[SavedBy(handlers[h].version[1])].saved ]_vars

\* a version was saved, another training run or a restart has changed the
\* instance since, and load_model of that version has returned
C18_Witness ==
    \E h1, h2, h3 \in 1..Len(handlers) :
       /\ h1 < h2 /\ h2 < h3
       /\ handlers[h1].result = "saved"
       /\ \/ handlers[h2].op = "train" /\ handlers[h2].data \in {"ok", "bad_model"}
          \/ handlers[h2].op = "restart"
       /\ handlers[h3].op = "load" /\ handlers[h3].result = "loaded"
       /\ handlers[h3].version = Some(handlers[h1].save_version)
       /\ handlers[h2].save_path # handlers[h1].save_path
       /\ Some(Predict(predictor)) = handlers[h1].saved

----------------------------------------------------------------------------
(* Training on few examples                                                *)

\* ConfusionModel.train, called by thread k, returns in this step without
\* having fitted anything
TrainRefuses(k) ==
    /\ threads[k].op = "finish_calibration"
    /\ threads[k].pc = "train"
    /\ threads'[k].pc = "done"
    /\ ret' = [op |-> "finish_calibration", val |-> Some(FALSE), raised |-> FALSE]

\* C19: a training call over 1 to 4 examples does not fail: it fits on
\* these examples and sets is_trained
C19_FewExamplesTrain ==
    [][ \A k \in 1..Len(threads) :
           Len(calibration_data) \in 1..4 => ~TrainRefuses(k) ]_vars

----------------------------------------------------------------------------
(* Feature extraction over windows of every length around 256              *)

\* a calibration trial: the prompt empties the buffer, samples arrive, and
\* the score is submitted over whatever the buffer holds
NextExtract ==
    \/ (current_session = None /\ StartCalibration)
    \/ (current_session # None /\ current_session[1].trials = <<>>
          /\ GetCalibrationPrompt(0))
    \/ \E kind \in DatagramKinds :
          Len(accepted) < MinSamples + MaxExtra /\ AlsEegHandler(kind)
    \/ \E sc \in CalibrationScores :
          Len(calibration_data) < MaxSubmits /\ SubmitCalibrationScore(sc)
SpecExtract == InitExamples /\ [][NextExtract]_vars

\* the fixed schema: five band powers, total_power and peak_freq for each of
\* the four channels
FeatureSchema ==
    {"tp9", "af7", "af8", "tp10"} \X
    {"delta", "theta", "alpha", "beta", "gamma", "total_power", "peak_freq"}

\* a score is submitted for the trial in hand
Submits ==
    /\ current_session # None
    /\ current_session[1].trials # <<>>
    /\ \E sc \in CalibrationScores : SubmitCalibrationScore(sc)

\* the vector extract_features returned in a submission that got one
Extracted == calibration_data'[Len(calibration_data')].features

\* C20: over fewer than 256 samples extract_features returns no feature
\* vector (the trial keeps none and nothing is added to the calibration
\* data); over 256 samples or more it returns a vector that has exactly the
\* keys of the schema, 7 for each of the 4 channels, 28 in all
C20_ExtractSchema ==
    [][ Submits =>
          IF Len(eeg_buffer) < 256
          THEN /\ calibration_data' = calibration_data
               /\ current_session'[1].trials[1].eeg_features = None
          ELSE /\ Len(calibration_data') = Len(calibration_data) + 1
               /\ Extracted.keys = FeatureSchema
               /\ Cardinality(Extracted.keys) = 28
               /\ current_session'[1].trials[1].eeg_features = Some(Extracted) ]_vars

\* C20 as stated: the vector over 256 samples or more has the keys of the
\* schema, 24 keys
C20_TwentyFourKeys ==
    [][ (Submits /\ Len(eeg_buffer) >= 256) =>
           /\ Len(calibration_data') = Len(calibration_data) + 1
           /\ FeatureSchema \subseteq Extracted.keys
           /\ Cardinality(Extracted.keys) = 24 ]_vars

\* one vector was extracted from exactly 256 samples and one from more, and
\* a submission over fewer than 256 samples left no features
C20_Witness ==
    /\ Len(calibration_data) = 2
    /\ calibration_data[1].features.n = 256
    /\ calibration_data[2].features.n > 256
    /\ Len(eeg_buffer) > 256

----------------------------------------------------------------------------
(* The score a review gives to the card                                    *)

\* one full window of samples, all of the same tick
FullWindow == [k \in 1..MinSamples |-> Sample(0, k)]

\* the application after a calibration of five trials over one window has
\* trained the confusion model: start_calibration, get_calibration_prompt,
\* 256 samples, five submit_calibration_score, finish_calibration
InitCalibrated ==
    /\ program = "examples"
    /\ now = 0
    /\ is_connected = FALSE
    /\ last_data_time = None
    /\ data_count = 0
    /\ recent_data = <<>>
    /\ deque_state = 0
    /\ reader = [pc |-> "idle"]
    /\ is_collecting = FALSE
    /\ eeg_buffer = FullWindow
    /\ current_stage = "ready_for_learning"
    /\ current_session =
          Some([session_id |-> 0, stage |-> "calibration",
                trials |-> <<[trial_id |-> 0, confusion_score |-> Some(8),
                              eeg_features |-> ExtractFeatures(FullWindow)]>>])
    /\ calibration_data =
          [i \in 1..TrainMinSamples |->
              [features |-> ExtractFeatures(FullWindow)[1], confusion_score |-> 8]]
    /\ confusion_model = [is_trained |-> TRUE, scaler |-> 1, model |-> 1,
                          training_score |-> 1]
    /\ threads = <<[NewThread("finish_calibration") EXCEPT !.pc = "done"]>>
    /\ predictor = NewPredictor
    /\ model_files = <<>>
    /\ handlers = <<>>
    /\ accepted = FullWindow
    /\ issued = 0
    /\ ret = [op |-> "finish_calibration", val |-> Some(TRUE), raised |-> FALSE]
    /\ flashcards = <<>>

\* the card ids a review request may name: the card added at tick 0, and an
\* id no card has
ScoreCardIds == {0, 1}

\* the ratings of SpecScore: those of the scheduler and one above 10
ScoreRatings == Ratings \cup {Some(11)}

\* one card, reviewed with every kind of rating, before and after a
\* calibration; get_next_flashcard empties the buffer
NextScore ==
    \/ (flashcards = <<>> /\ AddFlashcard)
    \/ \E c \in ScoreCardIds, r \in ScoreRatings, raw \in RawOutputs :
          TotalRepetitions < MaxScoreReviews /\ ProcessFlashcardReview(c, r, raw)
    \/ GetNextFlashcard
SpecScore == (InitExamples \/ InitCalibrated) /\ [][NextScore]_vars

\* the score the review of a card is to use: the prediction when the model
\* is trained and the buffer yields features, else the rating when one is
\* given, else 5
ExpectedScore(user_rating, raw) ==
    IF confusion_model.is_trained /\ ExtractFeatures(eeg_buffer) # None THEN Clamp(raw)
    ELSE IF user_rating # None THEN user_rating[1]
    ELSE 5

\* C21: process_flashcard_review of an existing card applies one update to
\* that card, with the prediction when the model is trained and features can
\* be extracted, else the rating given, else 5; for an unknown id no card
\* changes
C21_ReviewScore ==
    [][ \A c \in ScoreCardIds, r \in ScoreRatings, raw \in RawOutputs :
           ProcessFlashcardReview(c, r, raw) =>
              LET i == CardIndex(flashcards, c) IN
              IF i = 0 THEN flashcards' = flashcards
              ELSE /\ Len(flashcards') = Len(flashcards)
                   /\ \A j \in 1..Len(flashcards) : j # i => flashcards'[j] = flashcards[j]
                   /\ flashcards'[i].repetitions = flashcards[i].repetitions + 1
                   /\ Len(flashcards'[i].confusion_history) =
                         Len(flashcards[i].confusion_history) + 1
                   /\ flashcards'[i].last_confusion = Some(ExpectedScore(r, raw)) ]_vars

\* the declared domain of a confusion score
InDomain(score) == score >= 1 /\ score <= 10

\* the review takes its score from the rating: no prediction is made
RatingIsScore == ~(confusion_model.is_trained /\ ExtractFeatures(eeg_buffer) # None)

\* C22: a review whose score is a rating outside [1, 10] is rejected: it
\* returns a failure and no card changes
C22_RejectsOutOfDomain ==
    [][ \A c \in ScoreCardIds, r \in ScoreRatings, raw \in RawOutputs :
           ( /\ r # None /\ ~InDomain(r[1])
             /\ RatingIsScore
             /\ ProcessFlashcardReview(c, r, raw) ) =>
                /\ flashcards' = flashcards
                /\ (CardIndex(flashcards, c) # 0 => ret'.raised) ]_vars

----------------------------------------------------------------------------
(* The average confusion of a card                                         *)

\* the sum of the scores of the last k updates of a card
SumOfLast(card, k) ==
    SumSeq(SubSeq(ScoresOf(card), Len(card.confusion_history) - k + 1,
                  Len(card.confusion_history)))

\* C23: after n >= 1 updates avg_confusion is the arithmetic mean of the
\* scores of the last min(n, 10) updates; a card never updated has 5.0
C23_AvgOfRecent ==
    \A i \in 1..Len(flashcards) :
       LET c == flashcards[i]
           n == c.repetitions
           k == IF n < 10 THEN n ELSE 10
       IN  IF n = 0 THEN c.avg_confusion = <<5, 1>>
           ELSE c.avg_confusion[1] * k = c.avg_confusion[2] * SumOfLast(c, k)

\* eleven updates, the first with another score than the ten after it: the
\* average is that of the last ten
C23_Witness ==
    \E i \in 1..Len(flashcards) :
       /\ flashcards[i].repetitions = 11
       /\ ScoresOf(flashcards[i])[1] = 8
       /\ flashcards[i].avg_confusion = <<2, 1>>

----------------------------------------------------------------------------
(* The labels a prediction returns                                         *)

\* raw outputs the fitted linear model can give for a sample
RawValues ==
    { Finite(<<-1, 1>>), Finite(<<1, 2>>), Finite(<<3, 2>>), Finite(R(2)),
      Finite(<<5, 2>>), Finite(<<7, 2>>), PosInf, NegInf, NaN }

\* the raw outputs for the samples of one predict request
RawSeqs == UNION { [1..n -> RawValues] : n \in 0..MaxLabelSamples }

\* the /ml requests of SpecLabel: a training, then predictions
LabelCalls ==
    [op : {"train"}, new_version : {FALSE}, data : {"ok"}, version : {None},
     raw : {<<>>}]
    \cup [op : {"predict"}, new_version : {FALSE}, data : {"none"}, version : {None},
          raw : RawSeqs]

\* the samples of the predict requests made so far
RECURSIVE LabelSamples(_)
LabelSamples(hs) ==
    IF hs = <<>> THEN 0 ELSE Len(Head(hs).raw) + LabelSamples(Tail(hs))

NextLabel ==
    \/ \E call \in LabelCalls :
          /\ Len(handlers) < MaxLabelRequests
          /\ LabelSamples(handlers) + Len(call.raw) <= MaxLabelSamples
          /\ \A h \in 1..Len(handlers) : handlers[h].pc = "done"
          /\ Arrive(call)
    \/ \E h \in 1..Len(handlers) : Start(h)
    \/ \E h \in 1..Len(handlers) : HandlerStep(h)
    \/ (flashcards = <<>> /\ AddFlashcard)
    \/ \E c \in ScoreCardIds, raw \in RawOutputs :
          TotalRepetitions < MaxScoreReviews /\ ProcessFlashcardReview(c, None, raw)
SpecLabel == (InitBackend \/ InitCalibrated) /\ [][NextLabel]_vars

\* the labels of one prediction lie in the domain of the 3-level configuration
LevelInDomain(p) ==
    /\ p.difficulty_level \in {1, 2, 3}
    /\ RLe(R(1), p.clamped_prediction) /\ RLe(p.clamped_prediction, R(3))

----------------------------------------------------------------------------
(* The operations of the learning system, one at a time.  The card id is   *)
(* the clock's reading in milliseconds: two calls with no Tick between     *)
(* them read the same millisecond.                                         *)

\* the reviews recorded in the current learning session
SessionReviews ==
    IF current_session # None /\ current_session[1].stage = "learning"
    THEN Len(current_session[1].cards_reviewed) ELSE 0

\* the trials of the current calibration session
SessionTrials ==
    IF current_session # None /\ current_session[1].stage = "calibration"
    THEN Len(current_session[1].trials) ELSE 0

\* no request is being served
Idle == \A k \in 1..Len(threads) : threads[k].pc = "done"

NextFlow ==
    \/ AddFlashcard
    \/ \E c \in {0}, r \in {None}, raw \in {5} :
          /\ TotalRepetitions < MaxFlowReviews /\ SessionReviews < MaxFlowReviews
          /\ Idle
          /\ ProcessFlashcardReview(c, r, raw)
    \/ (Idle /\ GetNextFlashcard)
    \/ (Idle /\ StartCalibration)
    \/ \E kind \in {"ok"} :
          /\ Idle
          /\ Len(accepted) % MinSamples < MaxFlowSamples
          /\ AlsEegHandler(kind)
    \/ (Idle /\ Len(threads) <= MaxFlowFinishes /\ FinishStart)
    \/ \E k \in 1..Len(threads) : FinishStep(k)
    \/ (Idle /\ StartLearningSession)
    \/ (Idle /\ GenerateResults)
    \/ (Idle /\ ResetSystem)
    \/ (Idle /\ Tick(MaxFlowNow))
SpecFlow == (InitExamples \/ InitCalibrated) /\ [][NextFlow]_vars

\* ease_factor, interval, repetition count, confusion_history, avg_confusion
\* and next_review of a card
Scheduling(card) ==
    <<card.ease_factor, card.interval, card.repetitions, card.confusion_history,
      card.avg_confusion, card.next_review>>

\* the step is one update_from_confusion of card i
IsUpdate(i) ==
    /\ i <= Len(flashcards')
    /\ \E score \in 0..11 : flashcards'[i] = UpdateFromConfusion(flashcards[i], score, now)

\* C25: a step that changes the scheduling state of an existing card is an
\* update_from_confusion of that card: no other operation changes it
C25_OnlyUpdateChangesCard ==
    [][ \A i \in 1..Len(flashcards) :
           LET j == CardIndex(flashcards', flashcards[i].id) IN
           (j = 0 \/ Scheduling(flashcards'[j]) # Scheduling(flashcards[i]))
              => IsUpdate(i) ]_vars

\* C28: add_flashcard gives the new card an id that no existing card has and
\* leaves every existing card in place, so the system holds one card more
C28_FreshId ==
    [][ (ret'.op = "add_flashcard" /\ AddFlashcard) =>
           /\ CardIndex(flashcards, ret'.val[1]) = 0
           /\ Len(flashcards') = Len(flashcards) + 1
           /\ \A i \in 1..Len(flashcards) : flashcards'[i] = flashcards[i] ]_vars

----------------------------------------------------------------------------
(* A load_model that finds no file                                         *)

\* handler h is a load_model(v) for a version v of which there is no file
LoadsMissing(h) ==
    /\ handlers[h].op = "load"
    /\ Running(h)
    /\ handlers[h].version # None
    /\ handlers[h].version[1] \notin DOMAIN model_files

\* C27: a load_model(v) that finds no file of version v returns false and
\* leaves the instance as it was: model_version, model_path, model, scaler
\* and is_trained are what they were before the call
C27_FailedLoadKeepsInstance ==
    [][ \A h \in 1..Len(handlers) :
           (LoadsMissing(h) /\ handlers'[h] # handlers[h]) =>
              /\ predictor' = predictor
              /\ handlers'[h].pc = "done" => handlers'[h].result = "missing" ]_vars

----------------------------------------------------------------------------
(* A calibration trial: its samples, its training examples, and the way    *)
(* from calibration to learning                                            *)

\* a calibration session whose first trial has been issued and has all but
\* one of the samples of a window in the buffer
InitTrial ==
    /\ program = "examples"
    /\ now = 0
    /\ is_connected = FALSE
    /\ last_data_time = None
    /\ data_count = 0
    /\ recent_data = <<>>
    /\ deque_state = 0
    /\ reader = [pc |-> "idle"]
    /\ is_collecting = TRUE
    /\ eeg_buffer = SubSeq(FullWindow, 1, MinSamples - 1)
    /\ current_stage = "calibration"
    /\ current_session =
          Some([session_id |-> 0, stage |-> "calibration",
                trials |-> <<[trial_id |-> 0, confusion_score |-> None,
                              eeg_features |-> None]>>])
    /\ calibration_data = <<>>
    /\ flashcards = <<>>
    /\ confusion_model = NewConfusionModel
    /\ threads = <<>>
    /\ predictor = NewPredictor
    /\ model_files = <<>>
    /\ handlers = <<>>
    /\ accepted = SubSeq(FullWindow, 1, MinSamples - 1)
    /\ issued = 0
    /\ ret = [op |-> "get_calibration_prompt", val |-> Some(0), raised |-> FALSE]

\* the buffer is empty, one sample short of a window, or a window
AtMark == Len(eeg_buffer) \in {0, MinSamples - 1, MinSamples}

NextTrial ==
    \/ \E kind \in {"ok"} :
          /\ Idle
          /\ Len(eeg_buffer) < MinSamples /\ Len(accepted) < MaxTrialSamples
          /\ AlsEegHandler(kind)
    \/ \E idx \in {1} :
          Idle /\ AtMark /\ SessionTrials < MaxTrials /\ GetCalibrationPrompt(idx)
    \/ \E sc \in CalibrationScores :
          /\ Idle /\ AtMark
          /\ Len(calibration_data) < TrainMinSamples
          /\ SubmitCalibrationScore(sc)
    \/ (Idle /\ AtMark /\ Len(threads) < MaxTrialFinishes /\ FinishStart)
    \/ \E k \in 1..Len(threads) : FinishStep(k)
    \/ (Idle /\ AtMark /\ StartLearningSession)
    \/ (Idle /\ AtMark /\ ResetSystem)
    \/ (Idle /\ AtMark /\ current_session = None /\ StartCalibration)
    \/ (Idle /\ AtMark /\ flashcards = <<>> /\ AddFlashcard)
    \/ (Idle /\ AtMark /\ GetNextFlashcard)
SpecTrial == InitTrial /\ [][NextTrial]_vars

\* the session's trials that yielded features
TrialsWithFeatures ==
    IF current_session # None /\ current_session[1].stage = "calibration"
    THEN Cardinality({n \in 1..Len(current_session[1].trials) :
                         current_session[1].trials[n].eeg_features # None})
    ELSE 0

\* the samples ingested since the last trial was issued, the most recent
\* ones when more arrived than the buffer holds
SinceIssued ==
    LastK(SubSeq(accepted, issued + 1, Len(accepted)), EegBufferMaxlen)

\* C26: the samples from which submit_calibration_score computes a trial's
\* features are the samples ingested since that trial's
\* get_calibration_prompt, none from before it
C26_TrialSamples ==
    [][ \A sc \in CalibrationScores :
           ( /\ ret'.op = "submit_calibration_score"
             /\ SubmitCalibrationScore(sc)
             /\ ret'.val = Some(TRUE)
             /\ ExtractFeatures(eeg_buffer) # None ) =>
                eeg_buffer = SinceIssued ]_vars

\* C29: the calibration session holds at most one training example for each
\* trial issued
C29_OneExamplePerTrial ==
    (current_session # None /\ current_session[1].stage = "calibration") =>
       Len(calibration_data) <= SessionTrials

\* the step is the return of a finish_calibration call
FinishReturns ==
    /\ ret'.op = "finish_calibration"
    /\ \/ FinishStart /\ threads' = threads
       \/ \E k \in 1..Len(threads) : FinishStep(k) /\ threads'[k].pc = "done"

\* C30: the stage is 'learning' only with a trained confusion model;
\* start_learning_session with an untrained model returns none and leaves
\* the stage, the collection flag and the session as they were;
\* finish_calibration succeeds, setting the stage to 'ready_for_learning'
\* and stopping collection, only when at least 5 trials yielded features,
\* and leaves stage and flag alone when it fails
C30_LearningNeedsModel ==
    [][ /\ current_stage' = "learning" => confusion_model'.is_trained
        /\ ( /\ ret'.op = "start_learning_session"
             /\ StartLearningSession
             /\ ~confusion_model.is_trained ) =>
               /\ ret'.val = None
               /\ UNCHANGED <<current_stage, is_collecting, current_session>>
        /\ FinishReturns =>
               IF ret'.val = Some(TRUE)
               THEN /\ current_stage' = "ready_for_learning"
                    /\ ~is_collecting'
                    /\ TrialsWithFeatures >= TrainMinSamples
               ELSE UNCHANGED <<current_stage, is_collecting>> ]_vars

====
